---- MODULE Spec2Model ----
(***************************************************************************)
(* A model of telegram-send (src/telegram_send/telegram_send.py and        *)
(* src/telegram_send/utils.py): the message splitter, the configuration    *)
(* loader, the command-line run with its deletion and dispatch, and the    *)
(* interactive pairing flow.                                               *)
(*                                                                         *)
(* A Python str is modelled as a sequence of one-character strings, so     *)
(* that len(), slicing, concatenation and str.isdigit() are computed.      *)
(* Python's None is the model value None.                                  *)
(***************************************************************************)
EXTENDS Integers, Sequences, FiniteSets, TLC

\* Python values of several types share a variable or a field, so each is a
\* record named after its type: None, an int, a str.
None == [none |-> TRUE]
PyInt(n) == [int |-> n]
PyStr(s) == [str |-> s]
IsInt(v) == DOMAIN v = {"int"}
IsStr(v) == DOMAIN v = {"str"}

\* ------------------------------------------------------------------------
\* Bounds of the model.
\* ------------------------------------------------------------------------
\* longest string given to split_message
MaxLen == 3
\* max_length ranges over -MaxNeg .. MaxLen + 1
MaxNeg == 2
\* longest option value drawn for a configuration file, the named examples
\* of the claims aside
MaxValueLen == 2
\* most configuration paths on one command line
MaxPaths == 2
\* most retries of configure after a failure (calls of itself)
MaxRetries == 1
\* most updates that reach the bot during one pairing
MaxUpdates == 2
\* most polls, and most probes of a channel, followed in one pairing
MaxPolls == 3
\* A call of split_message on a string of at most MaxLen characters that
\* returns does so within MaxLen + 1 appends. The loop is followed for
\* MaxIter appends, one more than any returning call makes: a call that is
\* still in the loop then has the loop condition true and a message that the
\* iteration no longer changes, and never leaves it.
MaxIter == MaxLen + 2

Min(a, b) == IF a < b THEN a ELSE b
Max(a, b) == IF a > b THEN a ELSE b

\* All sequences over S of length at most n.
SeqsUpTo(S, n) == UNION {[1..k -> S] : k \in 0..n}

RECURSIVE Concat(_)
\* "".join(chunks)
Concat(chunks) ==
    IF chunks = <<>> THEN <<>> ELSE Head(chunks) \o Concat(Tail(chunks))

\* ------------------------------------------------------------------------
\* State.
\* ------------------------------------------------------------------------
VARIABLES
    \* split_message (utils.py:17-24)
    s_in,        \* the message argument as passed by the caller
    max_length,  \* the max_length argument
    message,     \* the local variable message, rebound by the loop
    ms,          \* the list of chunks built so far
    spc,         \* "loop" while in the function, "done" once it has returned
    \* get_config_settings (telegram_send.py:560-576)
    cfgFile,     \* what is stored at the configuration path
    loaded,      \* None before the call, then what the call returned or raised
    \* run, delete and send (telegram_send.py:57-349)
    confFiles,   \* what is stored at each path of the list conf
    warnfilter,  \* the action of the interpreter's warning filter for a
                 \* UserWarning: "default" unless the environment changes it
    args,        \* the parsed command line; args.caption is the one list
                 \* object that every call of send receives as captions
    stdin,       \* the text on standard input
    rpc,         \* where the command is
    exc,         \* the exception that left run, None when there is none
    target,      \* the index in conf of the path being sent to
    settings,    \* settings of the delete or send call in progress
    cat,         \* the number of the block of send last entered
    queue,       \* what is left of the loop in progress
    message_ids, \* message_ids of the send call in progress
    run_ids,     \* message_ids of run
    calls,       \* the remote calls issued so far, with their outcomes
    output,      \* what has been printed or warned
    \* configure (telegram_send.py:352-493)
    mode,        \* "direct", "group" or "channel": the flags of the call
    ppc,         \* where the pairing is
    depth,       \* how many times configure has called itself to retry
    token,       \* the token typed by the operator
    bot_name,    \* the username that get_me returned
    password,    \* the text expected back, once generated
    update,      \* the local variable update of the polling loop
    update_id,   \* the local variable update_id, the offset of the next poll
    chat_id,     \* the chat that pairing resolved
    root_topic_message,  \* the topic root of a forum chat, or None
    pfile,       \* what is stored at the configuration path conf
    writes,      \* how many times the configuration file has been written
    pending,     \* the updates the server holds unconfirmed for the bot
    next_update, \* the update_id the server gives the next incoming update
    pcalls,      \* the remote calls of the pairing, with their outcomes
    pexc,        \* the exception that left configure, None when there is none
    pout         \* what configure has printed about failures

splitVars == <<s_in, max_length, message, ms, spc>>
cfgVars == <<cfgFile, loaded>>
runVars == <<confFiles, warnfilter, args, stdin, rpc, exc, target, settings, cat, queue,
             message_ids, run_ids, calls, output>>

pairVars == <<mode, ppc, depth, token, bot_name, password, update, update_id,
              chat_id, root_topic_message, pfile, writes, pending,
              next_update, pcalls, pexc, pout>>

vars == <<splitVars, cfgVars, runVars, pairVars>>

\* the variables of a component no call of which is in progress
SplitIdle ==
    /\ s_in = <<>>
    /\ max_length = 1
    /\ message = <<>>
    /\ ms = <<>>
    /\ spc = "idle"

CfgIdle ==
    /\ cfgFile = [absent |-> TRUE]
    /\ loaded = None

PairIdle ==
    /\ mode = "direct"
    /\ ppc = "idle"
    /\ depth = 0
    /\ token = None
    /\ bot_name = None
    /\ password = None
    /\ update = None
    /\ update_id = None
    /\ chat_id = None
    /\ root_topic_message = None
    /\ pfile = [absent |-> TRUE]
    /\ writes = 0
    /\ pending = <<>>
    /\ next_update = 1
    /\ pcalls = <<>>
    /\ pexc = None
    /\ pout = <<>>

RunIdle ==
    /\ confFiles = <<>>
    /\ warnfilter = "default"
    /\ args = None
    /\ stdin = <<>>
    /\ rpc = "idle"
    /\ exc = None
    /\ target = 0
    /\ settings = None
    /\ cat = 0
    /\ queue = <<>>
    /\ message_ids = <<>>
    /\ run_ids = <<>>
    /\ calls = <<>>
    /\ output = <<>>

\* ------------------------------------------------------------------------
\* utils.py: split_message
\* ------------------------------------------------------------------------
\* Python's message[:n]: a negative n counts from the end.
PySliceTo(s, n) ==
    IF n >= 0 THEN SubSeq(s, 1, Min(n, Len(s)))
              ELSE SubSeq(s, 1, Max(Len(s) + n, 0))

\* Python's message[n:]: a negative n counts from the end.
PySliceFrom(s, n) ==
    IF n >= 0 THEN SubSeq(s, Min(n, Len(s)) + 1, Len(s))
              ELSE SubSeq(s, Max(Len(s) + n, 0) + 1, Len(s))

\* a loop condition that also splits a message of exactly max_length
SplitCondInclusive(m, n) == Len(m) >= n

\* the loop condition of split_message
SplitCond(m, n) == Len(m) > n

\* the chunk appended by one iteration: message[:max_length]
SplitChunk(m, n) == PySliceTo(m, n)

\* a rest that skips the character after the chunk
SplitRestSkipsOne(m, n) == PySliceFrom(m, n + 1)

\* a rest that keeps the whole message
SplitRestKeepsAll(m, n) == m

\* the message kept by one iteration: message[max_length:]
SplitRest(m, n) == PySliceFrom(m, n)

SplitAlphabet == {"a", "b"}

SplitInit ==
    /\ s_in \in SeqsUpTo(SplitAlphabet, MaxLen)
    /\ max_length \in (0 - MaxNeg)..(MaxLen + 1)
    /\ message = s_in
    /\ ms = <<>>
    /\ spc = "loop"
    /\ CfgIdle
    /\ RunIdle
    /\ PairIdle

\* one iteration of `while len(message) > max_length`
SplitLoop ==
    /\ spc = "loop"
    /\ SplitCond(message, max_length)
    /\ Len(ms) < MaxIter
    /\ ms' = Append(ms, SplitChunk(message, max_length))
    /\ message' = SplitRest(message, max_length)
    /\ UNCHANGED <<s_in, max_length, spc>>
    /\ UNCHANGED <<cfgVars, runVars, pairVars>>

\* the loop condition is false: ms.append(message); return ms
SplitReturn ==
    /\ spc = "loop"
    /\ ~SplitCond(message, max_length)
    /\ ms' = Append(ms, message)
    /\ spc' = "done"
    /\ UNCHANGED <<s_in, max_length, message>>
    /\ UNCHANGED <<cfgVars, runVars, pairVars>>

SplitNext == SplitLoop \/ SplitReturn

\* The interpreter runs the loop without pause: a step that can be taken is
\* taken.
SplitSpec == SplitInit /\ [][SplitNext]_vars /\ WF_vars(SplitNext)

\* ------------------------------------------------------------------------
\* telegram_send.py: ConfigError, Settings, get_config_settings
\* ------------------------------------------------------------------------
\* A configuration path holds no file, or a file that configparser reads as
\* sections of options. Option names are lower-case, as configparser stores
\* them; option values are strings.
Absent == [absent |-> TRUE]
ConfigFile(sections) == [sections |-> sections]

Digits == {"0", "1", "2", "3", "4", "5", "6", "7", "8", "9"}

DigitValue ==
    [c \in Digits |->
        CASE c = "0" -> 0 [] c = "1" -> 1 [] c = "2" -> 2 [] c = "3" -> 3
          [] c = "4" -> 4 [] c = "5" -> 5 [] c = "6" -> 6 [] c = "7" -> 7
          [] c = "8" -> 8 [] c = "9" -> 9]

\* Two characters outside ASCII, each written as its code point: U+0663,
\* ARABIC-INDIC DIGIT THREE, is a decimal digit of value 3; U+00B2,
\* SUPERSCRIPT TWO, is a digit that is not a decimal digit.
ArabicThree == "U+0663"
SuperscriptTwo == "U+00B2"

\* the decimal digits: what str.isdecimal(), int() and \d of re accept
Decimals == Digits \cup {ArabicThree}

DecimalValue ==
    [c \in Decimals |-> IF c = ArabicThree THEN 3 ELSE DigitValue[c]]

\* the digits, decimal or not: what str.isdigit() accepts
DigitChars == Decimals \cup {SuperscriptTwo}

\* str.isdigit(): a non-empty string of digits
PyIsDigit(s) == s # <<>> /\ \A i \in 1..Len(s) : s[i] \in DigitChars

\* str.isdecimal(): a non-empty string of decimal digits
PyIsDecimal(s) == s # <<>> /\ \A i \in 1..Len(s) : s[i] \in Decimals

RECURSIVE PyIntOf(_)
\* the value of a string of decimal digits
PyIntOf(s) ==
    IF s = <<>> THEN 0
    ELSE 10 * PyIntOf(SubSeq(s, 1, Len(s) - 1)) + DecimalValue[s[Len(s)]]

\* an exception raised by a call, named by its class
Raised(name) == [error |-> name]
IsRaised(r) == "error" \in DOMAIN r

\* int(s) of a string that str.isdigit() accepts: a digit that is not a
\* decimal digit is an invalid literal
PyIntParse(s) ==
    IF PyIsDecimal(s) THEN PyInt(PyIntOf(s)) ELSE Raised("ValueError")

\* raise ConfigError(msg): the message is its fixed text and the option
\* names joined into it
ConfigError(text, names) == [error |-> "ConfigError", text |-> text, names |-> names]

\* configparser.ParsingError, raised by config.read
ParsingError == Raised("ParsingError")

Settings(tok, chat, reply) ==
    [token |-> tok, chat_id |-> chat, reply_to_message_id |-> reply]

IsSettings(r) == "token" \in DOMAIN r
IsConfigError(r) == "error" \in DOMAIN r /\ r.error = "ConfigError"

\* a file whose text configparser cannot parse: a line that is neither a
\* section header nor an option with its delimiter
Unparsable == [unparsable |-> TRUE]

\* config.read(conf): the list of the files read is empty when there is none
ConfigRead(file) == file # Absent

\* config.has_section("telegram")
HasSection(file, section) == section \in DOMAIN file.sections

\* configparser.MAX_INTERPOLATION_DEPTH
MAX_INTERPOLATION_DEPTH == 10

UpperCase ==
    <<"A", "B", "C", "D", "E", "F", "G", "H", "I", "J", "K", "L", "M",
      "N", "O", "P", "Q", "R", "S", "T", "U", "V", "W", "X", "Y", "Z">>
LowerCase ==
    <<"a", "b", "c", "d", "e", "f", "g", "h", "i", "j", "k", "l", "m",
      "n", "o", "p", "q", "r", "s", "t", "u", "v", "w", "x", "y", "z">>

\* str.lower() of the texts of the model, whose letters are ASCII
PyLower(s) ==
    [i \in 1..Len(s) |->
        IF \E k \in 1..26 : UpperCase[k] = s[i]
        THEN LowerCase[CHOOSE k \in 1..26 : UpperCase[k] = s[i]]
        ELSE s[i]]

\* ConfigParser.optionxform: option names are compared in lower case
optionxform(name) == PyLower(name)

\* the option that the name in a reference %(name)s stands for after
\* optionxform, or "" when the files of the model have no such option
OptionNamed(name) ==
    LET var == optionxform(name)
    IN  CASE var = <<"t", "o", "k", "e", "n">> -> "token"
          [] var = <<"c", "h", "a", "t", "_", "i", "d">> -> "chat_id"
          [] var = <<"r", "e", "p", "l", "y", "_", "t", "o", "_", "m", "e",
                     "s", "s", "a", "g", "e", "_", "i", "d">>
                 -> "reply_to_message_id"
          [] OTHER -> ""

\* the first exception of two results in the order of evaluation, or the
\* two texts joined
Accumulate(head, rest) ==
    IF IsRaised(head) THEN head
    ELSE IF IsRaised(rest) THEN rest
    ELSE PyStr(head.str \o rest.str)

RECURSIVE InterpolateSome(_, _, _)
\* BasicInterpolation._interpolate_some of configparser, which config.get
\* applies to the stored value: "%%" stands for "%", "%(name)s" for the
\* value of the option name of the section, itself interpolated one level
\* deeper when it holds a "%", and any other "%" is a syntax error
InterpolateSome(rest, options, level) ==
    IF level > MAX_INTERPOLATION_DEPTH THEN Raised("InterpolationDepthError")
    ELSE IF \A i \in 1..Len(rest) : rest[i] # "%" THEN PyStr(rest)
    ELSE IF rest[1] # "%"
    THEN LET p == CHOOSE i \in 1..Len(rest) :
                      rest[i] = "%" /\ \A j \in 1..(i - 1) : rest[j] # "%"
         IN  Accumulate(PyStr(SubSeq(rest, 1, p - 1)),
                        InterpolateSome(SubSeq(rest, p, Len(rest)), options, level))
    ELSE IF Len(rest) >= 2 /\ rest[2] = "%"
    THEN Accumulate(PyStr(<<"%">>),
                    InterpolateSome(SubSeq(rest, 3, Len(rest)), options, level))
    ELSE IF Len(rest) >= 2 /\ rest[2] = "("
    THEN LET closes == {i \in 3..Len(rest) : rest[i] = ")"}
             close == IF closes = {} THEN 0
                      ELSE CHOOSE i \in closes : \A j \in closes : i <= j
         IN  IF close < 4 \/ close = Len(rest) \/ rest[close + 1] # "s"
             THEN Raised("InterpolationSyntaxError")
             ELSE LET var == OptionNamed(SubSeq(rest, 3, close - 1))
                  IN  IF var \notin DOMAIN options
                      THEN Raised("InterpolationMissingOptionError")
                      ELSE Accumulate(
                               IF \E i \in 1..Len(options[var]) :
                                      options[var][i] = "%"
                               THEN InterpolateSome(options[var], options, level + 1)
                               ELSE PyStr(options[var]),
                               InterpolateSome(SubSeq(rest, close + 2, Len(rest)),
                                               options, level))
    ELSE Raised("InterpolationSyntaxError")

\* config.get("telegram", option, fallback=None)
ConfigGet(options, option) ==
    IF option \in DOMAIN options
    THEN InterpolateSome(options[option], options, 1)
    ELSE None

\* set(["token", "chat_id"]) - set(config.options("telegram"))
MissingOptions(options) == {"token", "chat_id"} \ DOMAIN options

\* int(chat) if chat.isdigit() else chat
ParseChatId(chat) == IF PyIsDigit(chat) THEN PyIntParse(chat) ELSE PyStr(chat)

\* int(reply) if reply and reply.isdigit() else reply
ParseReply(reply) ==
    IF reply # None /\ reply.str # <<>> /\ PyIsDigit(reply.str)
    THEN PyIntParse(reply.str)
    ELSE reply

\* The exceptions other than ConfigError leave the loader as they are
\* raised: of config.read, of the three config.get in the order token,
\* chat_id, reply_to_message_id, of int(chat), of int(reply).
get_config_settings(file) ==
    IF file = Unparsable
    THEN ParsingError
    ELSE IF ~ConfigRead(file) \/ ~HasSection(file, "telegram")
    THEN ConfigError("Config not found", {})
    ELSE LET options == file.sections["telegram"]
             missing_options == MissingOptions(options)
         IN  IF Cardinality(missing_options) > 0
             THEN ConfigError("Missing options in config", missing_options)
             ELSE LET tok == ConfigGet(options, "token")
                      chat == ConfigGet(options, "chat_id")
                      reply == ConfigGet(options, "reply_to_message_id")
                  IN  IF IsRaised(tok) THEN tok
                      ELSE IF IsRaised(chat) THEN chat
                      ELSE IF IsRaised(reply) THEN reply
                      ELSE LET chatParsed == ParseChatId(chat.str)
                               replyParsed == ParseReply(reply)
                           IN  IF IsRaised(chatParsed) THEN chatParsed
                               ELSE IF IsRaised(replyParsed) THEN replyParsed
                               ELSE Settings(tok.str, chatParsed, replyParsed)

\* The files given to get_config_settings.
ValueAlphabet == {"0", "1", "2", "-", "@", "m", "%", ArabicThree, SuperscriptTwo}
Text12345 == <<"1", "2", "3", "4", "5">>
TextMyChannel == <<"@", "m", "y", "c", "h", "a", "n", "n", "e", "l">>
TextPrivateChannel == <<"-", "1", "0", "0", "1", "2">>
\* references to the token, to the chat_id itself and to no option
TextRefToken == <<"%", "(", "t", "o", "k", "e", "n", ")", "s">>
TextRefSelf == <<"%", "(", "c", "h", "a", "t", "_", "i", "d", ")", "s">>
TextRefNone == <<"@", "%", "(", "m", ")", "s">>
TextRefOpen == <<"%", "(", "m", ")">>
TextRefUpper == <<"%", "(", "T", "o", "K", "E", "N", ")", "s">>
TokenTexts == {<<>>, <<"1", ":", "A">>, <<"%">>, <<"%", "%", "2">>}
ChatTexts ==
    SeqsUpTo(ValueAlphabet, MaxValueLen)
        \cup {Text12345, TextMyChannel, TextPrivateChannel,
              TextRefToken, TextRefSelf, TextRefNone, TextRefOpen,
              TextRefUpper}
ReplyTexts ==
    { <<>>, <<"7">>, <<"0", "7">>, <<"x">>, <<ArabicThree>>,
      <<"7", SuperscriptTwo>>, <<"%">>, <<"%", "%">> }

TelegramOptions ==
    { t @@ c @@ r :
        t \in {<<>>} \cup {[token |-> x] : x \in TokenTexts},
        c \in {<<>>} \cup {[chat_id |-> x] : x \in ChatTexts},
        r \in {<<>>} \cup {[reply_to_message_id |-> x] : x \in ReplyTexts} }

ConfigFiles ==
    {Absent, Unparsable, ConfigFile(<<>>), ConfigFile([other |-> <<>>])}
        \cup {ConfigFile([telegram |-> o]) : o \in TelegramOptions}

CfgInit ==
    /\ cfgFile \in ConfigFiles
    /\ loaded = None
    /\ SplitIdle
    /\ RunIdle
    /\ PairIdle

\* settings = get_config_settings(conf)
Load ==
    /\ loaded = None
    /\ loaded' = get_config_settings(cfgFile)
    /\ UNCHANGED cfgFile
    /\ UNCHANGED <<splitVars, runVars, pairVars>>

CfgNext == Load

ConfigSpec == CfgInit /\ [][CfgNext]_vars

\* ------------------------------------------------------------------------
\* telegram_send.py: send and delete, the values they compute
\* ------------------------------------------------------------------------
\* MessageLimit.MAX_TEXT_LENGTH of python-telegram-bot
MAX_TEXT_LENGTH == 4096

\* a keyword argument that is not passed
Unset == [unset |-> TRUE]

\* a list or a string is true when it is neither None nor empty
Truthy(list) == list # None /\ list.list # <<>>
PyList(items) == [list |-> items]

RECURSIVE split_message(_, _)
\* utils.split_message as send calls it, with a positive max_length
split_message(m, n) ==
    IF SplitCond(m, n)
    THEN <<SplitChunk(m, n)>> \o split_message(SplitRest(m, n), n)
    ELSE <<m>>

\* html.escape of one character (quote=True)
HtmlEscapeChar(c) ==
    CASE c = "&" -> <<"&", "a", "m", "p", ";">>
      [] c = "<" -> <<"&", "l", "t", ";">>
      [] c = ">" -> <<"&", "g", "t", ";">>
      [] c = "\"" -> <<"&", "q", "u", "o", "t", ";">>
      [] c = "'" -> <<"&", "#", "x", "2", "7", ";">>
      [] OTHER -> <<c>>

HtmlSpecial == {"&", "<", ">", "\"", "'"}

RECURSIVE HtmlEscapeFrom(_, _)
HtmlEscapeFrom(s, i) ==
    IF i > Len(s) THEN <<>>
    ELSE HtmlEscapeChar(s[i]) \o HtmlEscapeFrom(s, i + 1)

\* html.escape(text)
HtmlEscape(s) ==
    IF \A i \in 1..Len(s) : s[i] \notin HtmlSpecial THEN s
    ELSE HtmlEscapeFrom(s, 1)

\* utils.pre_format
pre_format(text) ==
    <<"<", "p", "r", "e", ">">> \o HtmlEscape(text)
        \o <<"<", "/", "p", "r", "e", ">">>

\* an order of the blocks in which the images go out before the files
CategoriesImagesFirst ==
    << [arg |-> "messages",   method |-> "send_message",   captioned |-> FALSE],
       [arg |-> "images",     method |-> "send_photo",     captioned |-> TRUE],
       [arg |-> "files",      method |-> "send_document",  captioned |-> TRUE],
       [arg |-> "stickers",   method |-> "send_sticker",   captioned |-> FALSE],
       [arg |-> "animations", method |-> "send_animation", captioned |-> TRUE],
       [arg |-> "videos",     method |-> "send_video",     captioned |-> TRUE],
       [arg |-> "audios",     method |-> "send_audio",     captioned |-> TRUE],
       [arg |-> "locations",  method |-> "send_location",  captioned |-> FALSE] >>

\* The fixed order of the blocks of send, with the argument each reads, the
\* bot method it calls and the keyword under which the item is passed.
Categories ==
    << [arg |-> "messages",   method |-> "send_message",   captioned |-> FALSE],
       [arg |-> "files",      method |-> "send_document",  captioned |-> TRUE],
       [arg |-> "images",     method |-> "send_photo",     captioned |-> TRUE],
       [arg |-> "stickers",   method |-> "send_sticker",   captioned |-> FALSE],
       [arg |-> "animations", method |-> "send_animation", captioned |-> TRUE],
       [arg |-> "videos",     method |-> "send_video",     captioned |-> TRUE],
       [arg |-> "audios",     method |-> "send_audio",     captioned |-> TRUE],
       [arg |-> "locations",  method |-> "send_location",  captioned |-> FALSE] >>

\* One step of a block: a remote call to issue ("warn" tells that the
\* splitting warning is emitted before it), or an exception raised locally.
CallStep(method, item, caption, warn) ==
    [method |-> method, item |-> item, caption |-> caption, warn |-> warn]
RaiseStep(exception) == [raise |-> exception]
IsRaiseStep(step) == "raise" \in DOMAIN step

\* send.send_message: the text passed to bot.send_message
OutgoingText(m, pre) == IF pre THEN pre_format(m) ELSE m

\* the calls of one message of `for m in messages`
MessageSteps(m, pre) ==
    IF Len(m) > MAX_TEXT_LENGTH
    THEN LET chunks == split_message(m, MAX_TEXT_LENGTH)
         IN  [i \in 1..Len(chunks) |->
                 CallStep("send_message", PyStr(OutgoingText(chunks[i], pre)),
                          Unset, i = 1)]
    ELSE IF Len(m) = 0 THEN <<>>
    ELSE <<CallStep("send_message", PyStr(OutgoingText(m, pre)), Unset, FALSE)>>

RECURSIVE TextSteps(_, _)
\* the block `if messages:`
TextSteps(messages, pre) ==
    IF messages = <<>> THEN <<>>
    ELSE MessageSteps(Head(messages), pre) \o TextSteps(Tail(messages), pre)

\* [None] * k
NoneTimes(k) == [i \in 1..Max(k, 0) |-> None]

\* pads by one None too few
PaddedCaptionsShort(items, captions) ==
    captions \o NoneTimes(Len(items) - Len(captions) - 1)

\* send.make_captions: captions += [None] * (len(items) - len(captions))
PaddedCaptions(items, captions) ==
    captions \o NoneTimes(Len(items) - Len(captions))

\* zip(items, captions) of make_captions, as calls of the block's method
CaptionedSteps(method, items, padded) ==
    [i \in 1..Min(Len(items), Len(padded)) |->
        CallStep(method, items[i], padded[i], FALSE)]

\* `for x in items:` of a block without captions
PlainSteps(method, items) ==
    [i \in 1..Len(items) |-> CallStep(method, items[i], Unset, FALSE)]

\* str.split(","): the parts between the commas
RECURSIVE SplitOnComma(_)
SplitOnComma(s) ==
    IF \A i \in 1..Len(s) : s[i] # "," THEN <<s>>
    ELSE LET k == CHOOSE i \in 1..Len(s) :
                      s[i] = "," /\ \A j \in 1..(i - 1) : s[j] # ","
         IN  <<SubSeq(s, 1, k - 1)>> \o SplitOnComma(SubSeq(s, k + 1, Len(s)))

\* Whether float(s) accepts s, for s over digits, ".", "-" and ",": an
\* optional sign, then digits with at most one point and at least one digit.
IsFloatText(s) ==
    LET body == IF s # <<>> /\ s[1] = "-" THEN Tail(s) ELSE s
    IN  /\ \A i \in 1..Len(body) : body[i] \in Digits \cup {"."}
        /\ Cardinality({i \in 1..Len(body) : body[i] = "."}) <= 1
        /\ \E i \in 1..Len(body) : body[i] \in Digits

RECURSIVE Reduce(_, _)
\* num / 10^scale without trailing zeros in the fraction
Reduce(num, scale) ==
    IF scale > 0 /\ num % 10 = 0 THEN Reduce(num \div 10, scale - 1)
    ELSE [num |-> num, scale |-> scale]

\* float(s) of an accepted s, as the decimal fraction it denotes
PyFloat(s) ==
    LET neg == s[1] = "-"
        body == IF neg THEN Tail(s) ELSE s
        digits == SelectSeq(body, LAMBDA c : c \in Digits)
        point == IF \E i \in 1..Len(body) : body[i] = "."
                 THEN CHOOSE i \in 1..Len(body) : body[i] = "."
                 ELSE Len(body) + 1
        scale == Max(Len(body) - point, 0)
        value == PyIntOf(digits)
    IN  [float |-> Reduce(IF neg THEN 0 - value ELSE value, scale)]

\* passes the first number as the longitude and the second as the latitude
LocationCallSwapped(lat, lon, rest) ==
    IF ~IsFloatText(lat) \/ ~IsFloatText(lon)
    THEN <<RaiseStep("ValueError")>>
    ELSE <<CallStep("send_location",
                    [latitude |-> PyFloat(lon), longitude |-> PyFloat(lat)],
                    Unset, FALSE)>> \o rest

\* bot.send_location(latitude=float(lat), longitude=float(lon)), then the
\* rest of the loop
LocationCall(lat, lon, rest) ==
    IF ~IsFloatText(lat) \/ ~IsFloatText(lon)
    THEN <<RaiseStep("ValueError")>>
    ELSE <<CallStep("send_location",
                    [latitude |-> PyFloat(lat), longitude |-> PyFloat(lon)],
                    Unset, FALSE)>> \o rest

RECURSIVE LocationStepsFrom(_, _)
\* `for loc in it:` from the i-th token on
LocationStepsFrom(tokens, i) ==
    IF i > Len(tokens) THEN <<>>
    ELSE IF \E j \in 1..Len(tokens[i]) : tokens[i][j] = ","
    THEN LET parts == SplitOnComma(tokens[i])
         IN  IF Len(parts) # 2
             THEN <<RaiseStep("ValueError")>>
             ELSE LocationCall(parts[1], parts[2],
                               LocationStepsFrom(tokens, i + 1))
    ELSE IF i + 1 > Len(tokens)
         \* next(it) on the exhausted iterator: StopIteration, which leaves
         \* the coroutine as a RuntimeError
    THEN <<RaiseStep("RuntimeError")>>
    ELSE LocationCall(tokens[i], tokens[i + 1],
                      LocationStepsFrom(tokens, i + 2))

\* the block `if locations:`
LocationSteps(tokens) == LocationStepsFrom(tokens, 1)

\* The argument of send that a block reads.
SendArg(a, name) ==
    CASE name = "messages" -> a.message
      [] name = "files" -> a.file
      [] name = "images" -> a.image
      [] name = "stickers" -> a.sticker
      [] name = "animations" -> a.animation
      [] name = "videos" -> a.video
      [] name = "audios" -> a.audio
      [] name = "locations" -> a.location

\* captions after the block k of send has been entered
CaptionsAfterBlock(a, k) ==
    LET items == SendArg(a, Categories[k].arg)
    IN  IF Truthy(items) /\ Categories[k].captioned /\ Truthy(a.caption)
        THEN PyList(PaddedCaptions(items.list, a.caption.list))
        ELSE a.caption

\* the steps of the block k of send
BlockSteps(a, k) ==
    LET c == Categories[k]
        items == SendArg(a, c.arg)
    IN  IF ~Truthy(items) THEN <<>>
        ELSE IF c.arg = "messages" THEN TextSteps(items.list, a.pre)
        ELSE IF c.arg = "locations" THEN LocationSteps(items.list)
        ELSE IF c.captioned /\ Truthy(a.caption)
        THEN CaptionedSteps(c.method, items.list,
                            CaptionsAfterBlock(a, k).list)
        ELSE PlainSteps(c.method, items.list)

\* ------------------------------------------------------------------------
\* telegram_send.py: run, delete, send
\* ------------------------------------------------------------------------
\* default of --timeout and of the timeout parameter of delete
DEFAULT_TIMEOUT == 30

\* How a remote call ends: it returns, or it raises telegram.error.TimedOut
\* (a NetworkError whose text is "Timed out"), BadRequest (a NetworkError
\* with another text), or Forbidden (a TelegramError, no NetworkError).
Outcomes == {"ok", "TimedOut", "BadRequest", "Forbidden"}

\* isinstance(e, telegram.error.NetworkError)
IsNetworkError(e) == e \in {"TimedOut", "BadRequest"}

\* catches no exception of a remote call
IsTelegramErrorNever(e) == FALSE

\* isinstance(e, telegram.error.TelegramError): every exception of the
\* library derives from it
IsTelegramError(e) == e \in {"TimedOut", "BadRequest", "Forbidden", "InvalidToken"}

\* no text says "timed out"
SaysTimedOutNever(e) == FALSE

\* "timed out" in str(e).lower()
SaysTimedOut(e) == e = "TimedOut"

\* telegram.Bot(token) raises InvalidToken on an empty token
BotRaises(tok) == tok = <<>>

\* The command lines and files of the model.
TextHi == <<"h", "i">>
TextLong == [i \in 1..(MAX_TEXT_LENGTH + 1) |-> "a"]
TextTag == <<"<", "b", ">">>
TokenText == <<"1", ":", "A">>

ValidFile(chat) ==
    ConfigFile([telegram |-> [token |-> TokenText, chat_id |-> chat]])
RunFiles ==
    { Absent,
      ValidFile(<<"1", "2">>),
      ConfigFile([telegram |-> [token |-> TokenText]]),
      ConfigFile([telegram |-> [token |-> <<>>, chat_id |-> <<"1", "2">>]]) }

\* broadcasts to two different chats
Broadcasts ==
    { <<ValidFile(<<"1", "2">>), ValidFile(<<"@", "m">>)>>,
      <<ValidFile(<<"@", "m">>), ValidFile(<<"1", "2">>)>> }

NoArgs ==
    [message |-> PyList(<<>>), stdin |-> FALSE, pre |-> FALSE,
     file |-> None, image |-> None, sticker |-> None, animation |-> None,
     video |-> None, audio |-> None, caption |-> None, location |-> None,
     showids |-> FALSE, delete |-> None, timeout |-> DEFAULT_TIMEOUT]

MessageLists ==
    { <<>>, <<TextHi>>, <<<<>>, TextHi>>, <<TextLong>>, <<TextLong, TextLong>>,
      <<TextTag, TextHi>> }

Loc(lat, lon) == lat \o <<",">> \o lon
Lat407 == <<"4", "0", ".", "7">>
LonM74 == <<"-", "7", "4", ".", "0">>
Lat740 == <<"7", "4", ".", "0">>

MediaArgs ==
    { NoArgs,
      [NoArgs EXCEPT !.file = PyList(<<"f1", "f2">>),
                     !.caption = PyList(<<PyStr(<<"c", "1">>)>>)],
      [NoArgs EXCEPT !.image = PyList(<<"i1", "i2", "i3">>),
                     !.caption = PyList(<<PyStr(<<"c", "1">>)>>)],
      [NoArgs EXCEPT !.file = PyList(<<"f1">>),
                     !.image = PyList(<<"i1", "i2">>),
                     !.caption = PyList(<<PyStr(<<"c", "1">>)>>)],
      [NoArgs EXCEPT !.image = PyList(<<"i1">>),
                     !.caption = PyList(<<PyStr(<<"c", "1">>),
                                          PyStr(<<"c", "2">>)>>)],
      [NoArgs EXCEPT !.file = PyList(<<"f1">>), !.image = PyList(<<"i1">>)],
      [NoArgs EXCEPT !.sticker = PyList(<<"s1">>),
                     !.animation = PyList(<<"a1">>),
                     !.video = PyList(<<"v1">>),
                     !.audio = PyList(<<"u1">>)],
      [NoArgs EXCEPT !.video = PyList(<<"v1", "v2">>),
                     !.audio = PyList(<<"u1">>),
                     !.caption = PyList(<<PyStr(<<"c", "1">>)>>)],
      [NoArgs EXCEPT !.location = PyList(<<Loc(Lat407, LonM74)>>)],
      [NoArgs EXCEPT !.location = PyList(<<Lat407, LonM74>>)],
      [NoArgs EXCEPT !.location = PyList(<<Lat407, LonM74, Loc(Lat740, LonM74)>>)],
      [NoArgs EXCEPT !.location = PyList(<<Loc(Lat407, LonM74), Lat407>>)] }

\* values of --timeout
Timeouts == {DEFAULT_TIMEOUT, DEFAULT_TIMEOUT + 30}

StdinCases ==
    { [flag |-> FALSE, text |-> <<>>],
      [flag |-> TRUE, text |-> <<>>],
      [flag |-> TRUE, text |-> <<"x">>] }

RunArgs ==
    { [NoArgs EXCEPT !.message = PyList(m), !.pre = p] :
          m \in MessageLists, p \in BOOLEAN }
    \cup { [NoArgs EXCEPT !.message = PyList(m), !.stdin = TRUE] :
          m \in {<<>>, <<TextHi>>} }
    \cup { [a EXCEPT !.message = PyList(m), !.showids = TRUE] :
          a \in MediaArgs, m \in {<<>>, <<TextHi>>} }
    \cup { [a EXCEPT !.delete = PyList(<<PyInt(1), PyInt(2), PyInt(3)>>),
                     !.timeout = t] :
          a \in { [NoArgs EXCEPT !.message = PyList(<<TextHi>>)],
                  [NoArgs EXCEPT !.file = PyList(<<"f1">>)] },
          t \in Timeouts }
    \cup { [NoArgs EXCEPT !.message = PyList(<<TextHi>>),
                          !.file = PyList(<<"f1">>),
                          !.location = PyList(<<Loc(Lat407, LonM74)>>),
                          !.delete = PyList(<<PyInt(1)>>),
                          !.stdin = TRUE] }

RunInit ==
    /\ \/ \E n \in 1..MaxPaths : confFiles \in [1..n -> RunFiles]
       \/ confFiles \in Broadcasts
       \/ confFiles = <<Unparsable>>
    /\ warnfilter \in {"default", "always"}
    /\ args \in RunArgs
    /\ stdin \in {c.text : c \in {c \in StdinCases : c.flag = args.stdin}}
    /\ rpc = "stdin"
    /\ exc = None
    /\ target = 0
    /\ settings = None
    /\ cat = 0
    /\ queue = <<>>
    /\ message_ids = <<>>
    /\ run_ids = <<>>
    /\ calls = <<>>
    /\ output = <<>>
    /\ SplitIdle
    /\ CfgIdle
    /\ PairIdle

\* conf: one path per file of confFiles
conf == [i \in 1..Len(confFiles) |-> i]

\* warnings.warn(w) with what has been written so far: the action "always"
\* writes every warning, the action "default" writes a warning only when no
\* warning with the same text has been issued from that line before
Warn(out, w) ==
    IF warnfilter = "always" \/ \A i \in 1..Len(out) : out[i] # w
    THEN Append(out, w) ELSE out

\* except ConfigError in run: print the error, exit 1
ExitConfigError(e) ==
    /\ output' = Append(output, [print |-> "ConfigError", text |-> e.text,
                                 names |-> e.names])
    /\ rpc' = "exit1"

\* an exception that run does not handle leaves it
Propagate(e) ==
    /\ exc' = e
    /\ rpc' = "raised"

\* a loader that fills in what the file lacks instead of raising
get_config_settings_lenient(file) ==
    LET options == IF file # Unparsable /\ ConfigRead(file)
                          /\ HasSection(file, "telegram")
                   THEN file.sections["telegram"] ELSE <<>>
        get(option) == IF option \in DOMAIN options THEN options[option]
                       ELSE <<"0">>
    IN  Settings(get("token"), ParseChatId(get("chat_id")),
                 ParseReply(ConfigGet(options, "reply_to_message_id")))

\* settings = get_config_settings(conf) of send and delete
LoadSettings(file) == get_config_settings(file)

\* puts the text of standard input after the positional messages
StdinMessagesLast(text, messages) == messages \o <<text>>

\* line 130: args.message = [message] + args.message
StdinMessages(text, messages) == <<text>> \o messages

\* run, lines 126-130: --stdin
RunStdin ==
    /\ rpc = "stdin"
    /\ IF args.stdin
       THEN IF Len(stdin) = 0
            THEN rpc' = "exit0" /\ UNCHANGED args
            ELSE /\ args' = [args EXCEPT
                                !.message = PyList(StdinMessages(stdin, @.list))]
                 /\ rpc' = "delete"
       ELSE rpc' = "delete" /\ UNCHANGED args
    /\ UNCHANGED <<confFiles, warnfilter, stdin, exc, target, settings, cat, queue,
                   message_ids, run_ids, calls, output>>
    /\ UNCHANGED <<splitVars, cfgVars, pairVars>>

\* takes the last of the paths
DeletePathLast(paths) == paths[Len(paths)]

\* run, line 133: delete(args.delete, conf=conf[0])
DeletePath(paths) == paths[1]

\* swallows the exception: nothing is printed and the command goes on
RunExceptSwallow(e, out) ==
    /\ output' = out
    /\ UNCHANGED <<rpc, exc>>

\* delete, lines 339-344: load the settings of conf[0], build the bot,
\* enter the loop over the ids
DeleteLoad ==
    /\ rpc = "delete"
    /\ LET s == LoadSettings(confFiles[DeletePath(conf)])
       IN  IF IsConfigError(s)
           THEN ExitConfigError(s) /\ UNCHANGED <<exc, settings, queue>>
           ELSE IF IsRaised(s)
           THEN Propagate(s.error) /\ UNCHANGED <<settings, queue, output>>
           ELSE IF BotRaises(s.token)
           THEN Propagate("InvalidToken") /\ UNCHANGED <<settings, queue, output>>
           ELSE /\ settings' = s
                /\ queue' = IF Truthy(args.delete) THEN args.delete.list ELSE <<>>
                /\ rpc' = "delete_loop"
                /\ UNCHANGED <<exc, output>>
    /\ UNCHANGED <<confFiles, warnfilter, args, stdin, target, cat, message_ids, run_ids,
                   calls>>
    /\ UNCHANGED <<splitVars, cfgVars, pairVars>>

\* run, lines 160-167: a NetworkError that says "timed out" is printed with
\* a longer timeout and ends the command; every other exception leaves run
RunExcept(e, out) ==
    IF IsNetworkError(e) /\ SaysTimedOut(e)
    THEN /\ output' = Append(out, [print |-> "timed out",
                                   suggest |-> args.timeout + 10])
         /\ rpc' = "exit1"
         /\ UNCHANGED exc
    ELSE /\ Propagate(e)
         /\ output' = out

\* delete, lines 345-349: one bot.delete_message; a TelegramError is warned
\* and the loop goes on, another exception leaves delete
DeleteCall ==
    /\ rpc = "delete_loop"
    /\ queue # <<>>
    /\ \E outcome \in Outcomes :
          /\ calls' = Append(calls,
                 [method |-> "delete_message", op |-> "delete",
                  conf |-> DeletePath(conf), chat_id |-> settings.chat_id,
                  message_id |-> Head(queue),
                  read_timeout |-> DEFAULT_TIMEOUT, outcome |-> outcome])
          /\ IF outcome = "ok"
             THEN /\ queue' = Tail(queue)
                  /\ UNCHANGED <<rpc, exc, output>>
             ELSE IF IsTelegramError(outcome)
             THEN /\ output' = Warn(output, [warn |-> "delete failed",
                                             id |-> Head(queue),
                                             error |-> outcome])
                  /\ queue' = Tail(queue)
                  /\ UNCHANGED <<rpc, exc>>
             ELSE /\ RunExcept(outcome, output)
                  /\ UNCHANGED queue
    /\ UNCHANGED <<confFiles, warnfilter, args, stdin, target, settings, cat,
                   message_ids, run_ids>>
    /\ UNCHANGED <<splitVars, cfgVars, pairVars>>

\* delete returns; run, lines 134-135: message_ids = [], first c in conf
DeleteReturn ==
    /\ rpc = "delete_loop"
    /\ queue = <<>>
    /\ run_ids' = <<>>
    /\ target' = 1
    /\ settings' = None
    /\ rpc' = "send"
    /\ UNCHANGED <<confFiles, warnfilter, args, stdin, exc, cat, queue, message_ids,
                   calls, output>>
    /\ UNCHANGED <<splitVars, cfgVars, pairVars>>

\* the Message that the n-th remote call returns
Message(n) == [Message |-> [message_id |-> n]]

\* What a block adds to message_ids for a returned Message: the text block
\* takes its "message_id", every other block the Message itself.
Collected(method, msg) ==
    IF method = "send_message" THEN PyInt(msg.Message.message_id) ELSE msg

\* send, lines 210-231: load the settings of the path c, build the bot
SendLoad ==
    /\ rpc = "send"
    /\ LET s == LoadSettings(confFiles[conf[target]])
       IN  IF IsConfigError(s)
           THEN ExitConfigError(s) /\ UNCHANGED <<exc, settings>>
           ELSE IF IsRaised(s)
           THEN Propagate(s.error) /\ UNCHANGED <<settings, output>>
           ELSE IF BotRaises(s.token)
           THEN Propagate("InvalidToken") /\ UNCHANGED <<settings, output>>
           ELSE /\ settings' = s
                /\ rpc' = "send_body"
                /\ UNCHANGED <<exc, output>>
    /\ cat' = 0
    /\ queue' = <<>>
    /\ message_ids' = <<>>
    /\ UNCHANGED <<confFiles, warnfilter, args, stdin, target, run_ids, calls>>
    /\ UNCHANGED <<splitVars, cfgVars, pairVars>>

\* send: the next of the blocks of lines 233-321 is entered; its `if` is
\* evaluated and, where it has captions, make_captions extends the list
SendBlock ==
    /\ rpc = "send_body"
    /\ queue = <<>>
    /\ cat < Len(Categories)
    /\ cat' = cat + 1
    /\ queue' = BlockSteps(args, cat + 1)
    /\ args' = [args EXCEPT !.caption = CaptionsAfterBlock(args, cat + 1)]
    /\ UNCHANGED <<confFiles, warnfilter, stdin, rpc, exc, target, settings, message_ids,
                   run_ids, calls, output>>
    /\ UNCHANGED <<splitVars, cfgVars, pairVars>>

\* send: the next step of the block in progress, one remote call or a local
\* exception; run, lines 160-167, handles a NetworkError that says "timed
\* out" and lets every other exception through
SendCall ==
    /\ rpc = "send_body"
    /\ queue # <<>>
    /\ LET step == Head(queue)
           warned == IF ~IsRaiseStep(step) /\ step.warn
                     THEN Warn(output, [warn |-> "split"]) ELSE output
       IN  IF IsRaiseStep(step)
           THEN /\ Propagate(step.raise)
                /\ UNCHANGED <<queue, message_ids, calls, output>>
           ELSE \E outcome \in Outcomes :
                  /\ calls' = Append(calls,
                         [method |-> step.method, op |-> "send",
                          conf |-> conf[target],
                          chat_id |-> settings.chat_id,
                          reply_to_message_id |-> settings.reply_to_message_id,
                          read_timeout |-> args.timeout,
                          item |-> step.item, caption |-> step.caption,
                          outcome |-> outcome])
                  /\ IF outcome = "ok"
                     THEN /\ message_ids' = Append(message_ids,
                                 Collected(step.method, Message(Len(calls) + 1)))
                          /\ queue' = Tail(queue)
                          /\ output' = warned
                          /\ UNCHANGED <<rpc, exc>>
                     ELSE /\ RunExcept(outcome, warned)
                          /\ UNCHANGED <<queue, message_ids>>
    /\ UNCHANGED <<confFiles, warnfilter, args, stdin, target, settings, cat, run_ids>>
    /\ UNCHANGED <<splitVars, cfgVars, pairVars>>

\* send returns message_ids; run, lines 135-155: message_ids += ..., then
\* the next c in conf, or --showids and the end
SendReturn ==
    /\ rpc = "send_body"
    /\ queue = <<>>
    /\ cat = Len(Categories)
    /\ run_ids' = run_ids \o message_ids
    /\ IF target < Len(conf)
       THEN /\ target' = target + 1
            /\ settings' = None
            /\ rpc' = "send"
            /\ UNCHANGED output
       ELSE /\ rpc' = "done"
            /\ output' = IF args.showids /\ run_ids' # <<>>
                         THEN Append(output, [print |-> "message_ids",
                                              ids |-> run_ids'])
                         ELSE output
            /\ UNCHANGED <<target, settings>>
    /\ UNCHANGED <<confFiles, warnfilter, args, stdin, exc, cat, queue, message_ids, calls>>
    /\ UNCHANGED <<splitVars, cfgVars, pairVars>>

RunNext ==
    \/ RunStdin
    \/ DeleteLoad
    \/ DeleteCall
    \/ DeleteReturn
    \/ SendLoad
    \/ SendBlock
    \/ SendCall
    \/ SendReturn

RunSpec == RunInit /\ [][RunNext]_vars

\* ------------------------------------------------------------------------
\* telegram_send.py: configure
\* ------------------------------------------------------------------------
DigitChar == [d \in 0..9 |-> CHOOSE c \in Digits : DigitValue[c] = d]

RECURSIVE PyStrOfNat(_)
PyStrOfNat(n) ==
    IF n < 10 THEN <<DigitChar[n]>>
    ELSE PyStrOfNat(n \div 10) \o <<DigitChar[n % 10]>>

\* str(v) of an int or a str
PyStrOf(v) ==
    IF IsInt(v)
    THEN IF v.int < 0 THEN <<"-">> \o PyStrOfNat(0 - v.int) ELSE PyStrOfNat(v.int)
    ELSE v.str

\* chat_id.split("/")[-1]
RECURSIVE LastAfterSlash(_)
LastAfterSlash(s) ==
    IF \A i \in 1..Len(s) : s[i] # "/" THEN s
    ELSE LET k == CHOOSE i \in 1..Len(s) : s[i] = "/"
         IN  LastAfterSlash(SubSeq(s, k + 1, Len(s)))

\* lines 398-403: the chat id of a public channel from what was typed
PublicChannelId(entry) ==
    IF \E i \in 1..Len(entry) : entry[i] = "/"
    THEN <<"@">> \o LastAfterSlash(entry)
    ELSE IF entry # <<>> /\ entry[1] = "@" THEN entry
    ELSE <<"@">> \o entry

\* A URL typed for a private channel, by its parts: what precedes "web.",
\* the host name between "web." and ".org", what stands between "p=c" and
\* "_", and what follows "_". line 411: re.match with the pattern
\* .+web\.(telegram|tlgr)\.org\/\?legacy=1#\/im\?p=c(?P<chat_id>\d+)_\d+
\* which is anchored at the start only: after "_" one digit is enough and
\* anything may follow it
UrlMatches(url) ==
    /\ url.before # <<>>
    /\ url.host \in {"telegram", "tlgr"}
    /\ PyIsDecimal(url.chat)
    /\ url.tail # <<>>
    /\ url.tail[1] \in Decimals

\* line 415: "-100" + match.group("chat_id")
PrivateChannelId(url) == <<"-", "1", "0", "0">> \o url.chat

\* line 431: the password as a command of the bot, for a group
GroupPassword(digits, name) == <<"/">> \o digits \o <<"@">> \o name

\* matches whatever text the message has
UpdateMatchesAnyText(u, expected) == u.message # None

\* lines 443-444: update.message and update.message.text == password
UpdateMatches(u, expected) ==
    u.message # None /\ u.message.text = PyStr(expected)

\* lines 446-449: the offset after a batch without the password
NextOffset(updates) ==
    IF Len(updates) > 0
    THEN PyInt(updates[Len(updates)].update_id + 1)
    ELSE None

\* configure.get_user, given what bot.get_updates returned: the pair
\* (update, update_id) it returns
get_user(updates, expected) ==
    IF \E i \in 1..Len(updates) : UpdateMatches(updates[i], expected)
    THEN LET k == CHOOSE i \in 1..Len(updates) :
                      /\ UpdateMatches(updates[i], expected)
                      /\ \A j \in 1..(i - 1) : ~UpdateMatches(updates[j], expected)
         IN  <<updates[k], None>>
    ELSE <<None, NextOffset(updates)>>

RECURSIVE get_root_topic_message(_)
\* configure.get_root_topic_message
get_root_topic_message(m) ==
    IF m.reply_to_message # None
    THEN get_root_topic_message(m.reply_to_message)
    ELSE IF m.forum_topic_created THEN m ELSE None

\* writes the section without the chat
WrittenOptionsNoChat(tok, chat, root) == [token |-> tok]

\* lines 480-485: the section written, every value as configparser stores
\* it, str(value), under the lower-cased option name
WrittenOptions(tok, chat, root) ==
    IF root # None
    THEN [token |-> tok, chat_id |-> PyStrOf(chat),
          reply_to_message_id |-> PyStrOf(PyInt(root.message_id))]
    ELSE [token |-> tok, chat_id |-> PyStrOf(chat)]

\* bot.get_updates(offset=update_id): the server forgets the updates below
\* the offset and returns the ones it still holds
Unconfirmed(held, offset) ==
    IF offset = None THEN held
    ELSE SelectSeq(held, LAMBDA u : u.update_id >= offset.int)

\* What the operator and the chats can do.
GoodToken == <<"1", ":", "A">>
BadToken == <<"9", ":", "Z">>
BotName == <<"b", "o", "t">>
PasswordDigits == {<<"0", "4", "8", "2", "1">>}
PublicEntries ==
    { <<"@", "n", "m">>, <<"n", "m">>, <<"t", ".", "m", "e", "/", "n", "m">> }
PrivateUrls ==
    { [before |-> <<"h">>, host |-> "telegram", chat |-> <<"1", "4", "9">>,
       tail |-> <<"1", "7">>],
      [before |-> <<"h">>, host |-> "tlgr", chat |-> <<"1", "4", "9">>,
       tail |-> <<>>],
      [before |-> <<>>, host |-> "telegram", chat |-> <<"1", "4", "9">>,
       tail |-> <<"1", "7">>],
      [before |-> <<"h">>, host |-> "example", chat |-> <<"1", "4", "9">>,
       tail |-> <<"1", "7">>],
      [before |-> <<"h">>, host |-> "telegram", chat |-> <<"1", "4", "9">>,
       tail |-> <<"1", "x">>] }

User == [username |-> None, first_name |-> <<"A", "l">>]
TopicRoot ==
    [message_id |-> 5, text |-> None, chat_id |-> PyInt(0 - 22),
     is_forum |-> TRUE, from_user |-> User, reply_to_message |-> None,
     forum_topic_created |-> TRUE]
Incoming(id, text, chat, forum, reply) ==
    [message_id |-> id, text |-> text, chat_id |-> PyInt(chat),
     is_forum |-> forum, from_user |-> User, reply_to_message |-> reply,
     forum_topic_created |-> FALSE]

\* the digits shown to the operator, back from the expected text
PasswordSent(expected) ==
    IF expected[1] = "/" THEN SubSeq(expected, 2, 6) ELSE expected

\* the updates that may reach the bot while it waits for the password made
\* of `digits`: their message, None for an update that has none
IncomingMessages(flow, digits, name) ==
    IF flow = "group"
    THEN { None,
           Incoming(7, PyStr(digits), 0 - 22, FALSE, None),
           Incoming(9, PyStr(GroupPassword(digits, name)), 0 - 22, FALSE, None),
           Incoming(9, PyStr(GroupPassword(digits, name)), 0 - 22, TRUE, None),
           Incoming(9, PyStr(GroupPassword(digits, name)), 0 - 22, TRUE,
                    Incoming(6, PyStr(<<"h", "i">>), 0 - 22, TRUE, TopicRoot)) }
    ELSE { None,
           Incoming(7, None, 11, FALSE, None),
           Incoming(7, PyStr(digits \o <<"!">>), 11, FALSE, None),
           Incoming(7, PyStr(digits), 11, FALSE, None),
           Incoming(8, PyStr(digits), 33, FALSE, None) }

OldFile ==
    ConfigFile([telegram |-> [token |-> <<"0", ":", "B">>, chat_id |-> <<"5">>]])

PairInit ==
    /\ mode \in {"direct", "group", "channel"}
    /\ ppc = "token"
    /\ depth = 0
    /\ token = None
    /\ bot_name = None
    /\ password = None
    /\ update = None
    /\ update_id = None
    /\ chat_id = None
    /\ root_topic_message = None
    /\ pfile \in {Absent, OldFile}
    /\ writes = 0
    /\ pending = <<>>
    /\ next_update = 1
    /\ pcalls = <<>>
    /\ pexc = None
    /\ pout = <<>>
    /\ SplitIdle
    /\ CfgIdle
    /\ RunIdle

CallsOf(method) == {i \in 1..Len(pcalls) : pcalls[i].method = method}

\* return await configure(conf, channel=channel, group=group, ...): the
\* new call starts with fresh locals; when it returns, so does this one
Retry ==
    /\ depth' = depth + 1
    /\ ppc' = "token"
    /\ token' = None
    /\ bot_name' = None
    /\ password' = None
    /\ chat_id' = None

\* lines 363-387 and, without channel, 427-438: the token is read, get_me
\* resolves the bot, the password is generated; any exception retries
AskToken ==
    /\ ppc = "token"
    /\ \E tok \in {<<>>, GoodToken, BadToken} :
       \E outcome \in IF tok = <<>> THEN {"no call"}
                      ELSE IF tok = BadToken THEN {"InvalidToken"}
                      ELSE {"ok", "NetworkError"} :
          /\ pcalls' = IF outcome = "no call" THEN pcalls
                       ELSE Append(pcalls, [method |-> "get_me", token |-> tok,
                                            outcome |-> outcome])
          /\ IF outcome # "ok"
             THEN /\ depth < MaxRetries
                  /\ Retry
                  /\ pout' = Append(pout,
                         [print |-> "Error",
                          error |-> IF outcome = "no call" THEN "InvalidToken"
                                    ELSE outcome])
             ELSE /\ token' = tok
                  /\ UNCHANGED pout
                  /\ bot_name' = BotName
                  /\ IF mode = "channel"
                     THEN /\ ppc' = "channel"
                          /\ password' = None
                     ELSE /\ ppc' = "poll"
                          /\ \E digits \in PasswordDigits :
                                password' = IF mode = "group"
                                            THEN GroupPassword(digits, BotName)
                                            ELSE digits
                  /\ UNCHANGED <<depth, chat_id>>
    /\ UNCHANGED <<mode, update, update_id, root_topic_message, pfile, writes,
                   pending, next_update, pexc>>
    /\ UNCHANGED <<splitVars, cfgVars, runVars>>

\* lines 389-415: the channel is asked for; an URL that does not match
\* retries
AskChannel ==
    /\ ppc = "channel"
    /\ \/ \E entry \in PublicEntries :
             /\ chat_id' = PyStr(PublicChannelId(entry))
             /\ ppc' = "probe"
             /\ UNCHANGED <<depth, token, bot_name, password, pout>>
       \/ \E url \in PrivateUrls :
             IF UrlMatches(url)
             THEN /\ chat_id' = PyStr(PrivateChannelId(url))
                  /\ ppc' = "probe"
                  /\ UNCHANGED <<depth, token, bot_name, password, pout>>
             ELSE /\ depth < MaxRetries
                  /\ Retry
                  /\ pout' = Append(pout, [print |-> "Invalid URL."])
    /\ UNCHANGED <<mode, update, update_id, root_topic_message, pfile, writes,
                   pending, next_update, pcalls, pexc>>
    /\ UNCHANGED <<splitVars, cfgVars, runVars>>

\* lines 419-421: authorized = True is reached when send_chat_action returns
Authorized(outcome) == outcome = "ok"

\* lines 417-425: one send_chat_action; Forbidden and BadRequest ask for
\* administrator rights and probe again, another exception leaves configure
Probe ==
    /\ ppc = "probe"
    /\ Cardinality(CallsOf("send_chat_action")) < MaxPolls
    /\ \E outcome \in {"ok", "Forbidden", "BadRequest", "NetworkError"} :
          /\ pcalls' = Append(pcalls, [method |-> "send_chat_action",
                                       chat_id |-> chat_id,
                                       outcome |-> outcome])
          /\ IF Authorized(outcome) THEN ppc' = "write" /\ UNCHANGED pexc
             ELSE IF outcome \in {"Forbidden", "BadRequest"}
             THEN UNCHANGED <<ppc, pexc>>
             ELSE ppc' = "raised" /\ pexc' = outcome
    /\ UNCHANGED <<mode, depth, token, bot_name, password, update, update_id,
                   chat_id, root_topic_message, pfile, writes, pending,
                   next_update, pout>>
    /\ UNCHANGED <<splitVars, cfgVars, runVars>>

\* somebody writes to the bot, or something else happens that the server
\* reports as an update without a message
UserSends ==
    /\ ppc = "poll"
    /\ next_update <= MaxUpdates
    /\ \E m \in IncomingMessages(mode, PasswordSent(password), BotName) :
          pending' = Append(pending, [update_id |-> next_update, message |-> m])
    /\ next_update' = next_update + 1
    /\ UNCHANGED <<mode, ppc, depth, token, bot_name, password, update,
                   update_id, chat_id, root_topic_message, pfile, writes,
                   pcalls, pexc, pout>>
    /\ UNCHANGED <<splitVars, cfgVars, runVars>>

\* forgets the cursor when a poll fails
CursorResetAfterFailure(cursor) == None

\* lines 460-463: when get_user raises, the assignment to update and
\* update_id does not take place
CursorAfterFailure(cursor) == cursor

\* lines 459-463: one turn of `while update is None`: get_user polls; an
\* exception is printed and the loop goes on
Poll ==
    /\ ppc = "poll"
    /\ update = None
    /\ Cardinality(CallsOf("get_updates")) < MaxPolls
    /\ \/ LET held == Unconfirmed(pending, update_id)
              got == get_user(held, password)
          IN  /\ pending' = held
              /\ pcalls' = Append(pcalls, [method |-> "get_updates",
                                           offset |-> update_id,
                                           outcome |-> "ok",
                                           result |-> held])
              /\ update' = got[1]
              /\ update_id' = got[2]
              /\ ppc' = IF got[1] = None THEN "poll" ELSE "confirm"
              /\ UNCHANGED pout
       \/ /\ pcalls' = Append(pcalls, [method |-> "get_updates",
                                       offset |-> update_id,
                                       outcome |-> "NetworkError",
                                       result |-> <<>>])
          /\ pout' = Append(pout, [print |-> "Error!", error |-> "NetworkError"])
          /\ update_id' = CursorAfterFailure(update_id)
          /\ UNCHANGED <<pending, update, ppc>>
    /\ UNCHANGED <<mode, depth, token, bot_name, password, chat_id,
                   root_topic_message, pfile, writes, next_update, pexc>>
    /\ UNCHANGED <<splitVars, cfgVars, runVars>>

\* lines 465-478: the chat of the update is taken, the topic root looked up
\* in a forum, and the congratulation sent to the chat
Confirm ==
    /\ ppc = "confirm"
    /\ LET root == IF update.message.is_forum
                   THEN get_root_topic_message(update.message) ELSE None
       IN  /\ chat_id' = update.message.chat_id
           /\ root_topic_message' = root
           /\ \E outcome \in {"ok", "NetworkError"} :
                 /\ pcalls' = Append(pcalls,
                        [method |-> "send_message",
                         chat_id |-> update.message.chat_id,
                         reply_to_message_id |->
                             IF root # None THEN PyInt(root.message_id) ELSE None,
                         outcome |-> outcome])
                 /\ IF outcome = "ok" THEN ppc' = "write" /\ UNCHANGED pexc
                    ELSE ppc' = "raised" /\ pexc' = outcome
    /\ UNCHANGED <<mode, depth, token, bot_name, password, update, update_id,
                   pfile, writes, pending, next_update, pout>>
    /\ UNCHANGED <<splitVars, cfgVars, runVars>>

\* config.write, line 489: the options in the order in which the section
\* is written
WriteOrder(options) ==
    SelectSeq(<<"token", "chat_id", "reply_to_message_id">>,
              LAMBDA n : n \in DOMAIN options)

\* The sections that configparser reads from a text of which only a part
\* reached the file and whose last line is whole or ends inside a value:
\* the options written before the cut and, of the last of them, the part
\* of its value that was written.
PartialOptions(options) ==
    LET names == WriteOrder(options)
    IN  {<<>>} \cup UNION {
            { [n \in {names[i] : i \in 1..k} |->
                  IF n = names[k] THEN SubSeq(options[n], 1, j)
                  ELSE options[n]] : j \in 0..Len(options[names[k]]) }
            : k \in 1..Len(names) }

\* What the path may hold when the write fails after open(conf, "w") has
\* emptied or created the file: nothing; a text cut inside the section
\* header or inside an option name, which configparser cannot parse; or
\* the section with the options that were written
PartialFiles(options) ==
    {ConfigFile(<<>>), Unparsable}
        \cup {ConfigFile([telegram |-> o]) : o \in PartialOptions(options)}

\* integrate_file_manager(), lines 495-533, as configure calls it: for each
\* file manager that which() finds, its directory is made and its entry
\* written, which may raise OSError, and the script of nautilus is made
\* executable by chmod, whose failure check_output raises as
\* CalledProcessError. The entries are files of their own, which the model
\* does not hold: the call shows in whether and how configure ends.
IntegrationRaises == {"OSError", "CalledProcessError"}

\* lines 480-493: the configuration is written over whatever the path held.
\* makedirs or open(conf, "w") may fail and leave the path as it was;
\* open(conf, "w") empties or creates the file, and the text of
\* config.write reaches it when the file is flushed or closed: a write that
\* fails then leaves a part of the text at the path. After the write
\* `telegram-send --configure` (fm_integration) goes on to
\* integrate_file_manager(), of which an exception leaves configure with
\* the configuration written.
WriteConfig ==
    /\ ppc = "write"
    /\ \/ /\ pfile' = ConfigFile([telegram |->
                         WrittenOptions(token, chat_id, root_topic_message)])
          /\ writes' = writes + 1
          /\ ppc' = "paired"
          /\ UNCHANGED pexc
       \/ /\ mode = "direct"
          /\ pfile' = ConfigFile([telegram |->
                         WrittenOptions(token, chat_id, root_topic_message)])
          /\ writes' = writes + 1
          /\ ppc' = "raised"
          /\ pexc' \in IntegrationRaises
       \/ /\ ppc' = "raised"
          /\ pexc' = "OSError"
          /\ UNCHANGED <<pfile, writes>>
       \/ /\ pfile' \in PartialFiles(
                         WrittenOptions(token, chat_id, root_topic_message))
          /\ writes' = writes + 1
          /\ ppc' = "raised"
          /\ pexc' = "OSError"
    /\ UNCHANGED <<mode, depth, token, bot_name, password, update, update_id,
                   chat_id, root_topic_message, pending, next_update, pcalls,
                   pout>>
    /\ UNCHANGED <<splitVars, cfgVars, runVars>>

\* the reports of an undeletable global file that are followed
MaxCleans == 2

\* clean, lines 536-547, of a later `telegram-send --clean` (run, lines
\* 119-120) once the pairing command has ended. The path of the pairing is
\* the default path of the user, the global path, or a path given with
\* --config, which clean does not touch; the command may be given again
\* after a clean. The file of the user is removed
\* first when it exists, outside any try: an OSError of that remove leaves
\* clean with nothing removed. The global file is removed next when it
\* exists; when that fails "Can't delete" is printed and the exit status is
\* 1, with the file of the user already gone.
Clean ==
    /\ ppc \in {"paired", "raised", "cleaned", "exit1"}
    /\ \/ /\ pfile' \in {Absent, pfile}
          /\ ppc' = "cleaned"
          /\ UNCHANGED <<pout, pexc>>
       \/ /\ Len(SelectSeq(pout, LAMBDA o : o = [print |-> "Can't delete"]))
                 < MaxCleans
          /\ pfile' \in {Absent, pfile}
          /\ pout' = Append(pout, [print |-> "Can't delete"])
          /\ ppc' = "exit1"
          /\ UNCHANGED pexc
       \/ /\ ppc' = "raised"
          /\ pexc' = "OSError"
          /\ UNCHANGED <<pfile, pout>>
    /\ UNCHANGED <<mode, depth, token, bot_name, password, update, update_id,
                   chat_id, root_topic_message, writes, pending, next_update,
                   pcalls>>
    /\ UNCHANGED <<splitVars, cfgVars, runVars>>

PairNext ==
    \/ AskToken
    \/ AskChannel
    \/ Probe
    \/ UserSends
    \/ Poll
    \/ Confirm
    \/ WriteConfig

PairSpec == PairInit /\ [][PairNext]_vars

\* one pairing command and a later `telegram-send --clean`
PairCleanNext ==
    \/ PairNext
    \/ Clean

PairCleanSpec == PairInit /\ [][PairCleanNext]_vars

\* the options of the telegram section of the file given to the loader
StoredOptions == cfgFile.sections["telegram"]
StoredHasTelegram ==
    "sections" \in DOMAIN cfgFile /\ "telegram" \in DOMAIN cfgFile.sections

RECURSIVE Pow10(_)
Pow10(k) == IF k = 0 THEN 1 ELSE 10 * Pow10(k - 1)

\* v is the int whose decimal digits, leading zeros included, are text
IsDecimalOf(v, text) ==
    /\ IsInt(v)
    /\ v.int >= 0
    /\ v.int < Pow10(Len(text))
    /\ \A i \in 1..Len(text) :
          /\ text[i] \in Decimals
          /\ DecimalValue[text[i]] = (v.int \div Pow10(Len(text) - i)) % 10

\* v is text parsed by the rule of the loader: an int when text is purely
\* numeric, otherwise the unchanged string
IsParsedId(v, text) ==
    IF text # <<>> /\ \A i \in 1..Len(text) : text[i] \in Decimals
    THEN IsDecimalOf(v, text)
    ELSE IsStr(v) /\ v.str = text

\* C4, as claimed: loading raises ConfigError and returns no Settings when the file is
\* absent, has no telegram section, or lacks token or chat_id; in the last
\* case the message names exactly the missing ones of the two keys.
LoadFailsOnInvalid ==
    (loaded # None) =>
        /\ ~StoredHasTelegram =>
              IsConfigError(loaded) /\ ~IsSettings(loaded)
        /\ (StoredHasTelegram /\
                ("token" \notin DOMAIN StoredOptions
                    \/ "chat_id" \notin DOMAIN StoredOptions)) =>
              /\ IsConfigError(loaded)
              /\ ~IsSettings(loaded)
              /\ loaded.text = "Missing options in config"
              /\ \A k \in {"token", "chat_id"} :
                    k \in loaded.names <=> k \notin DOMAIN StoredOptions
              /\ loaded.names \subseteq {"token", "chat_id"}

\* C5, as claimed: the load of a file that has its token and its chat_id
\* returns the chat_id as an int when its stored text is purely numeric and
\* otherwise as the unchanged string ("12345" gives 12345, "@mychannel"
\* stays a string); reply_to_message_id follows the same rule when the key is
\* present and is None when it is not. The files whose token the loader
\* cannot read are left aside.
LoadParsesIds ==
    (/\ loaded # None
     /\ StoredHasTelegram
     /\ {"token", "chat_id"} \subseteq DOMAIN StoredOptions
     /\ \A i \in 1..Len(StoredOptions["token"]) :
            StoredOptions["token"][i] # "%") =>
        /\ IsSettings(loaded)
        /\ IsParsedId(loaded.chat_id, StoredOptions["chat_id"])
        /\ (StoredOptions["chat_id"] = Text12345) =>
              loaded.chat_id = PyInt(12345)
        /\ (StoredOptions["chat_id"] = TextMyChannel) =>
              loaded.chat_id = PyStr(TextMyChannel)
        /\ IF "reply_to_message_id" \in DOMAIN StoredOptions
           THEN IsParsedId(loaded.reply_to_message_id,
                           StoredOptions["reply_to_message_id"])
           ELSE loaded.reply_to_message_id = None

\* C6, as claimed: every Settings that the loader returns has a non-empty
\* token; a file whose token is empty is refused.
LoadedTokenNonEmpty ==
    IsSettings(loaded) => loaded.token # <<>>

\* the file at a path has a telegram section with both required options
HasRequiredOptions(file) ==
    /\ "sections" \in DOMAIN file
    /\ "telegram" \in DOMAIN file.sections
    /\ {"token", "chat_id"} \subseteq DOMAIN file.sections["telegram"]

\* the remote calls of the delete or send call that is in progress or was
\* the last to be
CallsOfCurrent ==
    { i \in 1..Len(calls) :
        IF target = 0
        THEN calls[i].op = "delete"
        ELSE calls[i].op = "send" /\ calls[i].conf = conf[target] }

ConfigErrorPrinted ==
    output # <<>> /\ "print" \in DOMAIN output[Len(output)]
        /\ output[Len(output)].print = "ConfigError"

\* C7: send and delete issue no remote call before their configuration has
\* been loaded with token and chat_id both present, and none at all when
\* loading raises ConfigError.
ConfigCheckedBeforeDispatch ==
    /\ \A i \in 1..Len(calls) : HasRequiredOptions(confFiles[calls[i].conf])
    /\ (settings = None) => CallsOfCurrent = {}
    /\ (rpc = "exit1" /\ ConfigErrorPrinted) =>
          settings = None /\ CallsOfCurrent = {}

\* the first path has been sent to, and the send to a second path whose
\* file lacks chat_id has ended in ConfigError without a call
ConfigCheckedWitness ==
    /\ rpc = "exit1"
    /\ ConfigErrorPrinted
    /\ target = 2
    /\ ~HasRequiredOptions(confFiles[2])
    /\ "sections" \in DOMAIN confFiles[2]
    /\ \E i \in 1..Len(calls) : calls[i].op = "send" /\ calls[i].conf = 1
    /\ \E i \in 1..Len(calls) : calls[i].op = "delete"

\* the polls that returned, and the last of them
ReturnedPolls ==
    {i \in CallsOf("get_updates") : pcalls[i].outcome = "ok"}
LastPoll == CHOOSE i \in CallsOf("get_updates") :
                \A j \in CallsOf("get_updates") : j <= i

\* the update carries a message whose text is exactly the expected password
CarriesPassword(u) ==
    /\ u.message # None
    /\ u.message.text # None
    /\ u.message.text.str = password

BatchCarriesPassword(batch) ==
    \E k \in 1..Len(batch) : CarriesPassword(batch[k])

\* C8: in direct or group pairing the protocol leaves AwaitingConfirmation
\* only on a poll whose batch contains an update whose text is exactly the
\* password, and resolves the chat of that update; updates with another
\* text or without message never resolve it, and a poll that returns the
\* password resolves whatever earlier polls returned.
PairingResolvesOnPassword ==
    (mode # "channel") =>
        /\ (ppc \notin {"token", "poll"}) => update # None
        /\ (update # None) =>
              /\ CarriesPassword(update)
              /\ ReturnedPolls # {}
              /\ LastPoll \in ReturnedPolls
              /\ \E k \in 1..Len(pcalls[LastPoll].result) :
                    pcalls[LastPoll].result[k] = update
        /\ \A i \in ReturnedPolls :
              BatchCarriesPassword(pcalls[i].result) =>
                  update # None /\ i = LastPoll
        /\ (chat_id # None) => chat_id = update.message.chat_id

\* a first poll returned an unrelated update, a later one the password, and
\* pairing resolved the chat of the later update
PairingResolvesWitness ==
    /\ mode = "direct"
    /\ ppc = "paired"
    /\ Cardinality(ReturnedPolls) = 2
    /\ \E i \in ReturnedPolls :
          /\ i # LastPoll
          /\ Len(pcalls[i].result) = 1
          /\ pcalls[i].result[1].message # None
    /\ chat_id = PyInt(33)

\* C9, as claimed: within one pairing session the polling cursor never
\* decreases and, once set, is never reset to the unset value, whatever the
\* polls return.
CursorNeverResets ==
    [][(ppc = "poll" /\ ppc' = "poll" /\ update_id # None) =>
           (update_id' # None /\ update_id'.int >= update_id.int)]_vars

\* text is how the configuration file stores the int or str v
StoresId(text, v) ==
    IF IsStr(v) THEN text = v.str
    ELSE IF v.int < 0
    THEN text # <<>> /\ text[1] = "-"
            /\ IsDecimalOf(PyInt(0 - v.int), Tail(text))
    ELSE IsDecimalOf(v, text)

ConfigurationWritten ==
    /\ writes = 1
    /\ "sections" \in DOMAIN pfile
    /\ "telegram" \in DOMAIN pfile.sections
    /\ {"token", "chat_id"} \subseteq DOMAIN pfile.sections["telegram"]
    /\ pfile.sections["telegram"]["token"] = token
    /\ StoresId(pfile.sections["telegram"]["chat_id"], chat_id)

ConfirmationSent ==
    \E i \in CallsOf("send_message") :
        pcalls[i].chat_id = chat_id /\ pcalls[i].outcome = "ok"

\* C10, as claimed: whenever pairing completes in Paired, in the direct, the
\* group and the channel flow alike, the configuration has been written and
\* a confirmation message has been sent to the resolved chat.
PairedWrittenAndConfirmed ==
    (ppc = "paired") => ConfigurationWritten /\ ConfirmationSent

\* C10, amended: whenever pairing completes in Paired the configuration has
\* been written; in the direct and the group flow a confirmation message
\* has been sent to the resolved chat, while in the channel flow no message
\* is sent and the last remote call is the chat-action probe of the
\* resolved channel, which succeeded.
PairedWrittenConfirmedUnlessChannel ==
    (ppc = "paired") =>
        /\ ConfigurationWritten
        /\ (mode # "channel") =>
              /\ ConfirmationSent
              /\ pcalls[Len(pcalls)].method = "send_message"
        /\ (mode = "channel") =>
              /\ CallsOf("send_message") = {}
              /\ pcalls[Len(pcalls)] =
                    [method |-> "send_chat_action", chat_id |-> chat_id,
                     outcome |-> "ok"]

\* a group pairing in a forum topic has completed over an older file
PairedWitness ==
    /\ ppc = "paired"
    /\ mode = "group"
    /\ root_topic_message # None
    /\ "reply_to_message_id" \in DOMAIN pfile.sections["telegram"]
    /\ depth = 1

\* C1: for every string s and every positive n, the chunks that
\* split_message(s, n) returns, concatenated in order, are s.
SplitConcatReconstructs ==
    (spc = "done" /\ max_length > 0) => Concat(ms) = s_in

\* a call with a positive max_length has returned several chunks
SplitConcatWitness ==
    /\ spc = "done"
    /\ max_length > 0
    /\ Len(ms) >= 2
    /\ Len(s_in) = MaxLen

\* C2: for positive n the result is non-empty, every chunk but the last has
\* length exactly n, the last has length at most n, and the last is empty
\* only when s is empty, the result then being [""].
SplitChunkShape ==
    (spc = "done" /\ max_length > 0) =>
        /\ Len(ms) >= 1
        /\ \A i \in 1..(Len(ms) - 1) : Len(ms[i]) = max_length
        /\ Len(ms[Len(ms)]) <= max_length
        /\ (ms[Len(ms)] = <<>>) => (s_in = <<>> /\ ms = << <<>> >>)
        /\ (s_in = <<>>) => (ms = << <<>> >>)

\* a call has returned full chunks followed by a shorter, non-empty last one
SplitChunkShapeWitness ==
    /\ spc = "done"
    /\ max_length > 1
    /\ Len(ms) >= 2
    /\ Len(ms[Len(ms)]) \in 1..(max_length - 1)

SendCallsTo(c) == SelectSeq(calls, LAMBDA x : x.op = "send" /\ x.conf = c)

\* the items that the calls sc have passed to a bot method
ItemsAmong(sc, method) ==
    LET sent == SelectSeq(sc, LAMBDA x : x.method = method)
    IN  [i \in 1..Len(sent) |-> sent[i].item]

\* the items that the send to the path c has passed to a bot method
ItemsSent(c, method) == ItemsAmong(SendCallsTo(c), method)

IsPrefix(a, b) == Len(a) <= Len(b) /\ a = SubSeq(b, 1, Len(a))

\* the category order of the claim, by bot method, and the argument of each
\* media category
OrderOfMethods ==
    <<"send_message", "send_document", "send_photo", "send_sticker",
      "send_animation", "send_video", "send_audio", "send_location">>
RankOf(method) == CHOOSE k \in 1..Len(OrderOfMethods) : OrderOfMethods[k] = method
MediaInput(a, method) ==
    LET given == CASE method = "send_document" -> a.file
                   [] method = "send_photo" -> a.image
                   [] method = "send_sticker" -> a.sticker
                   [] method = "send_animation" -> a.animation
                   [] method = "send_video" -> a.video
                   [] method = "send_audio" -> a.audio
    IN  IF given = None THEN <<>> ELSE given.list
MediaMethods ==
    {"send_document", "send_photo", "send_sticker", "send_animation",
     "send_video", "send_audio"}

\* C11: send issues its remote calls one at a time in the fixed category
\* order text messages, files, images, stickers, animations, videos, audios,
\* locations, and inside a category in the order of the input: a call is
\* issued only after every earlier call has returned, the categories of the
\* calls never go back in the order, the items of a media category are a
\* prefix of its input, and the whole input once a later category has begun.
SendInCategoryOrder ==
    \A c \in 1..Len(confFiles) :
        LET sc == SendCallsTo(c)
            rank == [i \in 1..Len(sc) |-> RankOf(sc[i].method)]
        IN  sc = <<>> \/
            /\ \A i \in 1..Len(sc) : i < Len(sc) => sc[i].outcome = "ok"
            /\ \A i, j \in 1..Len(sc) : i < j => rank[i] <= rank[j]
            /\ \A m \in MediaMethods :
                   LET sent == ItemsAmong(sc, m)
                       input == MediaInput(args, m)
                   IN  /\ IsPrefix(sent, input)
                       /\ (\E i \in 1..Len(sc) : rank[i] > RankOf(m))
                              => sent = input
            /\ (~args.pre /\ \A i \in 1..Len(args.message.list) :
                                Len(args.message.list[i]) <= MAX_TEXT_LENGTH)
                   => IsPrefix(ItemsSent(c, "send_message"),
                               SelectSeq([i \in 1..Len(args.message.list) |->
                                             PyStr(args.message.list[i])],
                                         LAMBDA x : x.str # <<>>))

\* a send has gone through a text, a sticker, an animation, a video and an
\* audio, in this order
SendInCategoryOrderWitness ==
    /\ rpc = "done"
    /\ \E c \in 1..Len(confFiles) :
          [i \in 1..Len(SendCallsTo(c)) |-> SendCallsTo(c)[i].method]
              = <<"send_message", "send_sticker", "send_animation",
                  "send_video", "send_audio">>

\* the calls of the send in progress that have returned
ReturnedOfSend ==
    SelectSeq(SendCallsTo(conf[target]), LAMBDA x : x.outcome = "ok")

\* C12, as claimed: the sequence that send builds and returns has one
\* element per successful remote call, and every element, for text messages
\* as for files, images, stickers, animations, videos, audios and locations,
\* is the message identifier that the call returned.
SendCollectsIdentifiers ==
    rpc = "send_body" =>
        /\ Len(message_ids) = Len(ReturnedOfSend)
        /\ \A i \in 1..Len(message_ids) : IsInt(message_ids[i])

\* the captions as given on the command line: make_captions only ever
\* appends None to the list, and no given caption is None
GivenCaptions ==
    IF args.caption = None THEN <<>>
    ELSE SelectSeq(args.caption.list, LAMBDA x : x # None)

\* the (item, caption) pairs that the send to the path c has passed to a
\* bot method
PairsSent(c, method) ==
    LET sent == SelectSeq(SendCallsTo(c), LAMBDA x : x.method = method)
    IN  [i \in 1..Len(sent) |-> <<sent[i].item, sent[i].caption>>]

\* the pairs of the claim for the items of a category and k >= 1 captions
AlignedPairs(items, captions) ==
    [i \in 1..Len(items) |->
        <<items[i], IF i <= Len(captions) THEN captions[i] ELSE None>>]

\* the send to the path c has returned
SendReturned(c) == c < target \/ (rpc = "done" /\ c <= target)

CaptionedMethods ==
    {"send_document", "send_photo", "send_animation", "send_video",
     "send_audio"}

\* C13: for a caption-supporting category with n items and k >= 1 captions
\* send issues exactly n calls, the i-th item with the i-th caption when
\* i <= k and with no caption otherwise, every category pairing from the
\* start of the captions; while the send is under way the pairs sent are a
\* prefix of these.
CaptionsAligned ==
    \A c \in 1..Len(confFiles) : \A m \in CaptionedMethods :
        (Len(GivenCaptions) >= 1 /\ MediaInput(args, m) # <<>>) =>
            LET pairs == AlignedPairs(MediaInput(args, m), GivenCaptions)
            IN  /\ IsPrefix(PairsSent(c, m), pairs)
                /\ SendReturned(c) => PairsSent(c, m) = pairs

\* 3 images and 1 caption have been sent to two paths, each time as
\* (image1, caption1), (image2, none), (image3, none)
CaptionsAlignedWitness ==
    /\ rpc = "done"
    /\ Len(confFiles) = 2
    /\ \A c \in 1..2 :
          PairsSent(c, "send_photo")
              = << <<"i1", PyStr(<<"c", "1">>)>>, <<"i2", None>>, <<"i3", None>> >>

\* the k-th piece of at most n characters of the text m
PieceOf(m, n, k) == SubSeq(m, (k - 1) * n + 1, Min(k * n, Len(m)))

\* the pieces that the claim has go out for one message: none for an empty
\* message, the message itself up to the maximum, otherwise its successive
\* pieces of the maximum length
PiecesOf(m) ==
    IF Len(m) = 0 THEN <<>>
    ELSE IF Len(m) <= MAX_TEXT_LENGTH THEN <<m>>
    ELSE [k \in 1..((Len(m) + MAX_TEXT_LENGTH - 1) \div MAX_TEXT_LENGTH) |->
             PieceOf(m, MAX_TEXT_LENGTH, k)]

RECURSIVE AllPieces(_)
AllPieces(messages) ==
    IF messages = <<>> THEN <<>>
    ELSE PiecesOf(Head(messages)) \o AllPieces(Tail(messages))

\* how many of the messages are longer than the maximum
Oversized(messages) ==
    Cardinality({i \in 1..Len(messages) : Len(messages[i]) > MAX_TEXT_LENGTH})

\* how many splitting warnings have been written
SplitWarnings ==
    Len(SelectSeq(output, LAMBDA o : "warn" \in DOMAIN o /\ o.warn = "split"))

\* the text passed for a piece: the piece itself, wrapped by --pre
TextPassed(piece) == PyStr(IF args.pre THEN pre_format(piece) ELSE piece)

\* C14, as claimed: for each text message in input order, an empty message
\* causes no call and no warning, a message up to the maximum length one
\* call, and a longer message one call per chunk of split_message in chunk
\* order and exactly one warning: the texts sent to a path are a prefix of
\* the pieces of the messages, all of them once the send has returned, and
\* a command that has sent to every path has warned once per oversized
\* message and path.
TextMessagesSplit ==
    LET pieces == AllPieces(args.message.list)
        expected == [i \in 1..Len(pieces) |-> TextPassed(pieces[i])]
    IN  /\ \A c \in 1..Len(confFiles) :
              /\ IsPrefix(ItemsSent(c, "send_message"), expected)
              /\ SendReturned(c) => ItemsSent(c, "send_message") = expected
        /\ rpc \in {"send", "send_body", "done"} =>
              SplitWarnings <= Oversized(args.message.list) * target
        /\ rpc = "done" =>
              SplitWarnings = Oversized(args.message.list) * Len(confFiles)

\* the coordinates 40.7, -74.0 and 74.0 as decimal fractions
Deg407 == [float |-> [num |-> 407, scale |-> 1]]
DegM74 == [float |-> [num |-> 0 - 74, scale |-> 0]]
Deg740 == [float |-> [num |-> 74, scale |-> 0]]

HasComma(tok) == \E j \in 1..Len(tok) : tok[j] = ","
IsCoordinate(tok) == ~HasComma(tok) /\ IsFloatText(tok)

RECURSIVE WellFormedFrom(_, _)
\* the tokens from the i-th on are locations: "lat,lon" in one token, or a
\* latitude followed by its longitude in the next
WellFormedFrom(tokens, i) ==
    IF i > Len(tokens) THEN TRUE
    ELSE IF HasComma(tokens[i])
    THEN /\ \E k \in 2..(Len(tokens[i]) - 1) :
               /\ tokens[i][k] = ","
               /\ IsCoordinate(SubSeq(tokens[i], 1, k - 1))
               /\ IsCoordinate(SubSeq(tokens[i], k + 1, Len(tokens[i])))
         /\ WellFormedFrom(tokens, i + 1)
    ELSE /\ i + 1 <= Len(tokens)
         /\ IsCoordinate(tokens[i])
         /\ IsCoordinate(tokens[i + 1])
         /\ WellFormedFrom(tokens, i + 2)

RECURSIVE LocationsFrom(_, _)
\* how many locations the well-formed tokens from the i-th on are
LocationsFrom(tokens, i) ==
    IF i > Len(tokens) THEN 0
    ELSE IF HasComma(tokens[i]) THEN 1 + LocationsFrom(tokens, i + 1)
    ELSE 1 + LocationsFrom(tokens, i + 2)

LocationTokens == IF args.location = None THEN <<>> ELSE args.location.list

\* C15: a token with a comma is one location made of its two parts, a token
\* without a comma is a latitude whose longitude is the next token: the
\* inputs ["40.7,-74.0"] and ["40.7", "-74.0"] each cause exactly one
\* send_location call with latitude 40.7 and longitude -74.0, and a
\* well-formed list of m locations causes exactly m calls in order.
LocationsParsed ==
    \A c \in 1..Len(confFiles) :
        LET sent == ItemsSent(c, "send_location")
        IN  /\ WellFormedFrom(LocationTokens, 1) =>
                  /\ Len(sent) <= LocationsFrom(LocationTokens, 1)
                  /\ SendReturned(c) =>
                        Len(sent) = LocationsFrom(LocationTokens, 1)
            /\ (SendReturned(c) /\ LocationTokens \in {<<Loc(Lat407, LonM74)>>,
                                                     <<Lat407, LonM74>>})
                  => sent = <<[latitude |-> Deg407, longitude |-> DegM74]>>
            /\ (SendReturned(c)
                    /\ LocationTokens = <<Lat407, LonM74, Loc(Lat740, LonM74)>>)
                  => sent = <<[latitude |-> Deg407, longitude |-> DegM74],
                              [latitude |-> Deg740, longitude |-> DegM74]>>

\* a latitude and a longitude given as two tokens, followed by a location
\* in one token, have been sent as two locations
LocationsParsedWitness ==
    /\ rpc = "done"
    /\ LocationTokens = <<Lat407, LonM74, Loc(Lat740, LonM74)>>
    /\ Len(ItemsSent(1, "send_location")) = 2

\* the delete_message calls issued so far, in call order
DeleteCalls == SelectSeq(calls, LAMBDA x : x.op = "delete")

\* the ids given to --delete
DeleteIds == IF args.delete = None THEN <<>> ELSE args.delete.list

\* delete has returned to run
DeleteReturned == target >= 1

\* C16: delete attempts every id of the list exactly once and in list
\* order; a remote failure on an id is caught and written as a warning that
\* names the id, the remaining ids are still attempted, and delete returns
\* without raising.
DeleteAttemptsAll ==
    LET attempted == [i \in 1..Len(DeleteCalls) |-> DeleteCalls[i].message_id]
    IN  /\ IsPrefix(attempted, DeleteIds)
        /\ DeleteReturned => attempted = DeleteIds
        /\ (target = 0 /\ calls # <<>>) => (rpc = "delete_loop" /\ exc = None)
        /\ \A i \in 1..Len(DeleteCalls) :
               DeleteCalls[i].outcome # "ok" =>
                   \E k \in 1..Len(output) :
                       output[k] = [warn |-> "delete failed",
                                    id |-> DeleteCalls[i].message_id,
                                    error |-> DeleteCalls[i].outcome]

\* of the ids 1, 2, 3 the second failed and the others were deleted, and
\* delete returned
DeleteAttemptsAllWitness ==
    /\ DeleteReturned
    /\ exc = None
    /\ [i \in 1..Len(DeleteCalls) |-> DeleteCalls[i].outcome]
           = <<"ok", "BadRequest", "ok">>
    /\ [i \in 1..Len(DeleteCalls) |-> DeleteCalls[i].message_id]
           = <<PyInt(1), PyInt(2), PyInt(3)>>

\* C17, as claimed: send leaves its payload unchanged: while send runs,
\* every sequence that the caller passed in (messages, files, images,
\* captions, locations and the others) keeps its length and its elements.
SendLeavesPayloadUnchanged ==
    [][(rpc \in {"send", "send_body"}) => (args' = args)]_vars

\* the timeout message of run with the value it suggests
TimeoutMessage == [print |-> "timed out", suggest |-> args.timeout + 10]

\* the call i is the last one, and the command ended on it with the timeout
\* message and a non-zero exit
SurfacedAsTimeout(i) ==
    /\ i = Len(calls)
    /\ rpc = "exit1"
    /\ output # <<>>
    /\ output[Len(output)] = TimeoutMessage

\* the call i is the last one, and its error left run unchanged
PropagatedUnchanged(i) ==
    /\ i = Len(calls)
    /\ rpc = "raised"
    /\ exc = calls[i].outcome

\* C18, as claimed: a network error that reports a timeout, during deletion
\* or dispatch, is surfaced as the timeout message with the current
\* --timeout plus 10 and a non-zero exit, and every other remote-protocol
\* error propagates unchanged out of run.
TimeoutsSurfacedEverywhere ==
    \A i \in 1..Len(calls) :
        /\ calls[i].outcome = "TimedOut" => SurfacedAsTimeout(i)
        /\ calls[i].outcome \in {"BadRequest", "Forbidden"}
               => PropagatedUnchanged(i)

\* C18, amended: a timeout during dispatch is surfaced as the timeout
\* message with the current --timeout plus 10 and a non-zero exit, and
\* every other remote-protocol error of dispatch propagates unchanged;
\* during deletion a timeout is caught like every other remote failure:
\* it is written as a warning and the command goes on.
TimeoutsSurfacedInDispatch ==
    \A i \in 1..Len(calls) :
        /\ (calls[i].op = "send" /\ calls[i].outcome = "TimedOut")
               => SurfacedAsTimeout(i)
        /\ (calls[i].op = "send"
                /\ calls[i].outcome \in {"BadRequest", "Forbidden"})
               => PropagatedUnchanged(i)
        /\ (calls[i].op = "delete" /\ calls[i].outcome # "ok") =>
               /\ \E k \in 1..Len(output) :
                      output[k] = [warn |-> "delete failed",
                                   id |-> calls[i].message_id,
                                   error |-> calls[i].outcome]
               /\ target = 0 => (rpc = "delete_loop" /\ exc = None)

\* with --timeout 60 a deletion has timed out, the command went on to the
\* dispatch, and the dispatch timed out with the suggestion of 70
TimeoutsSurfacedWitness ==
    /\ rpc = "exit1"
    /\ args.timeout = DEFAULT_TIMEOUT + 30
    /\ \E i \in 1..Len(calls) :
          calls[i].op = "delete" /\ calls[i].outcome = "TimedOut"
    /\ calls[Len(calls)].op = "send"
    /\ calls[Len(calls)].outcome = "TimedOut"
    /\ output[Len(output)] = [print |-> "timed out", suggest |-> 70]

\* ------------------------------------------------------------------------
\* Claims about the writing of the configuration and the polling loop.
\* ------------------------------------------------------------------------
\* the token in use has resolved a bot identity
TokenResolved ==
    \E i \in CallsOf("get_me") :
        pcalls[i].token = token /\ pcalls[i].outcome = "ok"

\* the target chat has been confirmed: for a channel the last probe of the
\* chat succeeded, otherwise the update held carries the password and the
\* chat is the chat of that update
ChatConfirmed ==
    IF mode = "channel"
    THEN /\ CallsOf("send_chat_action") # {}
         /\ LET last == CHOOSE i \in CallsOf("send_chat_action") :
                            \A j \in CallsOf("send_chat_action") : j <= i
            IN  pcalls[last].outcome = "ok" /\ pcalls[last].chat_id = chat_id
    ELSE /\ update # None
         /\ CarriesPassword(update)
         /\ chat_id = update.message.chat_id

\* a step by which configure calls itself again
IsRetry == depth' = depth + 1

\* C19, as claimed: the configuration file is written only when pairing
\* reaches Paired and at most once per command, never before the token has
\* resolved a bot identity and the chat has been confirmed; a retry after an
\* invalid token or an invalid channel URL re-enters AwaitingToken in the
\* same mode and has written nothing.
WrittenOnlyWhenPaired ==
    /\ [](/\ writes <= 1
          /\ writes = 1 <=> ppc = "paired"
          /\ writes = 0 => pfile \in {Absent, OldFile}
          /\ writes = 1 => (TokenResolved /\ ChatConfirmed))
    /\ [][IsRetry => /\ ppc' = "token"
                     /\ mode' = mode
                     /\ writes = 0
                     /\ writes' = 0
                     /\ pfile' = pfile]_vars

\* the step is a poll that raised
PollFailed ==
    /\ ppc = "poll"
    /\ Len(pcalls') = Len(pcalls) + 1
    /\ pcalls'[Len(pcalls')].method = "get_updates"
    /\ pcalls'[Len(pcalls')].outcome # "ok"

\* C20: during AwaitingConfirmation an exception of a poll is caught and
\* printed and leaves the cursor and the unresolved session as they were,
\* with polling still on; and pairing leaves AwaitingConfirmation only by a
\* poll that returned an update carrying the password.
PollFailureKeepsSession ==
    [][/\ PollFailed =>
             /\ ppc' = "poll"
             /\ update' = None
             /\ update_id' = update_id
             /\ pexc' = None
             /\ pending' = pending
             /\ pout' = Append(pout, [print |-> "Error!",
                                      error |-> pcalls'[Len(pcalls')].outcome])
       /\ (ppc = "poll" /\ ppc' # "poll") =>
             /\ ppc' = "confirm"
             /\ pcalls'[Len(pcalls')].method = "get_updates"
             /\ pcalls'[Len(pcalls')].outcome = "ok"
             /\ BatchCarriesPassword(pcalls'[Len(pcalls')].result)
             /\ CarriesPassword(update')]_vars

\* a poll advanced the cursor, the next poll failed, the poll after it was
\* made with the same cursor and returned the password
PollFailureKeepsSessionWitness ==
    /\ ppc = "confirm"
    /\ \E i \in CallsOf("get_updates") :
          /\ i + 1 \in CallsOf("get_updates")
          /\ pcalls[i].outcome # "ok"
          /\ pcalls[i].offset # None
          /\ pcalls[i + 1].offset = pcalls[i].offset
          /\ pcalls[i + 1].outcome = "ok"
          /\ BatchCarriesPassword(pcalls[i + 1].result)

\* ------------------------------------------------------------------------
\* Claims about what is transmitted, the round trip of the configuration,
\* failures, deletion and standard input.
\* ------------------------------------------------------------------------
\* the send_message calls issued so far
TextCalls == SelectSeq(calls, LAMBDA x : x.method = "send_message")

\* C21, as claimed: every text that send passes to send_message has at most
\* the maximum text length, for every input message and for both values of
\* the pre flag.
TransmittedWithinLimit ==
    \A i \in 1..Len(TextCalls) :
        Len(TextCalls[i].item.str) <= MAX_TEXT_LENGTH

\* the reply_to_message_id that pairing resolved
ResolvedReply ==
    IF root_topic_message # None THEN PyInt(root_topic_message.message_id)
    ELSE None

\* C22, as claimed: a configuration written by pairing and then read by the
\* loader yields the token, the chat_id and the reply_to_message_id that
\* pairing resolved, each an integer or a string as pairing had it, for
\* every chat id pairing can resolve.
RoundTripPreservesSettings ==
    ppc = "paired" =>
        get_config_settings(pfile) = Settings(token, chat_id, ResolvedReply)

\* ------------------------------------------------------------------------
\* Claims about failures, the order of deletion and dispatch, and --stdin.
\* ------------------------------------------------------------------------
\* the remote send calls of the invocation, in call order
SendCalls == SelectSeq(calls, LAMBDA x : x.op = "send")

\* what identifies a send call: its method and, save for a location, its
\* item
Dispatched(c) ==
    LET sc == SendCallsTo(c)
    IN  [i \in 1..Len(sc) |->
            IF sc[i].method = "send_location"
            THEN <<"send_location">>
            ELSE <<sc[i].method, sc[i].item>>]

RECURSIVE MediaDispatch(_)
\* the calls of the media categories from the k-th method of the order on
MediaDispatch(k) ==
    IF k > Len(OrderOfMethods) - 1 THEN <<>>
    ELSE LET items == MediaInput(args, OrderOfMethods[k])
         IN  [i \in 1..Len(items) |-> <<OrderOfMethods[k], items[i]>>]
             \o MediaDispatch(k + 1)

\* the calls of one complete send in dispatch order, for well-formed
\* locations: the pieces of the texts, the media by category, the locations
FullDispatch ==
    LET pieces == AllPieces(args.message.list)
    IN  [i \in 1..Len(pieces) |-> <<"send_message", TextPassed(pieces[i])>>]
        \o MediaDispatch(2)
        \o [i \in 1..LocationsFrom(LocationTokens, 1) |-> <<"send_location">>]

\* the configuration of the path c does not load, or its token makes no bot
LoadFails(c) ==
    \/ IsRaised(get_config_settings(confFiles[c]))
    \/ BotRaises(get_config_settings(confFiles[c]).token)

\* C23: dispatch stops at the first failure and rolls nothing back: a send
\* call that failed is the last call of the invocation, which has ended;
\* the send calls go through the targets in order and, once the first is
\* issued, no other kind of call follows; a target before the current one
\* has had its whole dispatch, the current one a prefix of it that is empty
\* when its configuration did not load, and a later target no call at all.
DispatchStopsAtFailure ==
    /\ \A i \in 1..Len(calls) :
           (calls[i].op = "send" /\ calls[i].outcome # "ok") =>
               /\ i = Len(calls)
               /\ rpc \in {"exit1", "raised"}
    /\ \A i, j \in 1..Len(calls) :
           (i < j /\ calls[i].op = "send") =>
               /\ calls[j].op = "send"
               /\ calls[i].conf <= calls[j].conf
    /\ \A c \in 1..Len(confFiles) :
           /\ c > target => SendCallsTo(c) = <<>>
           /\ (c = target /\ LoadFails(c)) =>
                  /\ SendCallsTo(c) = <<>>
                  /\ rpc \in {"send", "exit1", "raised"}
    /\ ((calls # <<>> \/ target > 1) /\ WellFormedFrom(LocationTokens, 1)) =>
           LET full == FullDispatch
           IN  \A c \in 1..Len(confFiles) :
                   LET sent == Dispatched(c)
                   IN  /\ IsPrefix(sent, full)
                       /\ c < target => sent = full

\* a broadcast has sent a text and a file to its first target, then the
\* text to the second, where the file was refused: the command has ended
\* with the four calls, the last one the failure
DispatchStopsAtFailureWitness ==
    /\ rpc = "raised"
    /\ target = 2
    /\ Len(SendCallsTo(1)) = 2
    /\ Len(SendCallsTo(2)) = 2
    /\ Len(calls) >= 4
    /\ calls[Len(calls)].method = "send_document"
    /\ calls[Len(calls)].outcome = "Forbidden"

\* the first configuration path does not load
FirstConfigInvalid == IsConfigError(get_config_settings(confFiles[1]))

\* C24: in one invocation every deletion call precedes every send call,
\* and deletion uses the first configuration path only: every deletion call
\* goes to the chat of the first path, whatever the number of paths, and
\* with an invalid first configuration the invocation ends on the
\* configuration error with no remote call at all.
DeletionFirstOnFirstPath ==
    /\ \A i, j \in 1..Len(calls) :
           (calls[i].op = "delete" /\ calls[j].op = "send") => i < j
    /\ \A i \in 1..Len(calls) :
           calls[i].op = "delete" =>
               /\ calls[i].conf = 1
               /\ ~FirstConfigInvalid
               /\ calls[i].chat_id = get_config_settings(confFiles[1]).chat_id
    /\ (FirstConfigInvalid /\ rpc \notin {"stdin", "delete", "exit0"}) =>
           /\ rpc = "exit1"
           /\ target = 0
           /\ calls = <<>>
           /\ Len(output) = 1
           /\ output[1].print = "ConfigError"

\* with two paths of different chats the three ids were attempted in the
\* chat of the first path, and then both chats were sent to
DeletionFirstOnFirstPathWitness ==
    /\ rpc = "done"
    /\ Len(confFiles) = 2
    /\ get_config_settings(confFiles[1]).chat_id
           # get_config_settings(confFiles[2]).chat_id
    /\ Len(DeleteCalls) = 3
    /\ \A i \in 1..3 :
           calls[i].op = "delete"
               /\ calls[i].chat_id = get_config_settings(confFiles[1]).chat_id
    /\ SendCallsTo(1) # <<>>
    /\ SendCallsTo(2) # <<>>
    /\ SendCallsTo(2)[1].chat_id = get_config_settings(confFiles[2]).chat_id

\* the texts passed to send_message for messages up to the maximum length:
\* one per message that is not empty
TextsOf(messages) ==
    SelectSeq([i \in 1..Len(messages) |-> TextPassed(messages[i])],
              LAMBDA x : x # TextPassed(<<>>))

\* run has read standard input
StdinRead == rpc # "stdin"

\* C25: in stdin mode with empty standard input the command exits with
\* status 0 having issued no remote call, no deletion and no send, whatever
\* else was given; with non-empty standard input its text is put before the
\* positional messages and is the first text sent to every target, the
\* positional messages following it.
StdinEmptyExitsStdinTextFirst ==
    /\ [](/\ (args.stdin /\ stdin = <<>> /\ StdinRead) =>
                 /\ rpc = "exit0"
                 /\ calls = <<>>
                 /\ output = <<>>
                 /\ exc = None
                 /\ target = 0
          /\ rpc = "exit0" => (args.stdin /\ stdin = <<>>)
          /\ (args.stdin /\ stdin # <<>> /\ StdinRead) =>
                 /\ Head(args.message.list) = stdin
                 /\ \A c \in 1..Len(confFiles) :
                        /\ IsPrefix(ItemsSent(c, "send_message"),
                                    TextsOf(args.message.list))
                        /\ ItemsSent(c, "send_message") # <<>> =>
                               ItemsSent(c, "send_message")[1] = PyStr(stdin)
                        /\ SendReturned(c) =>
                               ItemsSent(c, "send_message")
                                   = TextsOf(args.message.list))
    /\ [][(rpc = "stdin" /\ args.stdin /\ stdin # <<>>) =>
              args'.message.list = <<stdin>> \o args.message.list]_vars

\* stdin mode with empty standard input, a positional message, a file, a
\* location and an id to delete: the command has exited with status 0 and
\* no call
StdinEmptyWitness ==
    /\ rpc = "exit0"
    /\ args.message.list = <<TextHi>>
    /\ Truthy(args.file)
    /\ Truthy(args.location)
    /\ Truthy(args.delete)
    /\ calls = <<>>

====
